---- MODULE Spec2Model ----
(***************************************************************************)
(* Model of the Overture playlist orchestration service.                   *)
(*                                                                         *)
(*   - the intent endpoint (rest.Handler.AnalyzeIntent), its background    *)
(*     goroutine and services.Orchestrator.ProcessIntent;                  *)
(*   - services.Orchestrator.AddTrackToPlaylist running concurrently with  *)
(*     itself and with the feature worker against the SQLite adapter.      *)
(*                                                                         *)
(* Feature values are float64 in the code; here they are integers in       *)
(* hundredths (0.5 is 50), tempo in BPM.                                   *)
(***************************************************************************)
EXTENDS Integers, Sequences, FiniteSets, TLC

\* ---------------------------------------------------------------- bounds
MaxArtists == 2
MaxHeartbeats == 2

\* ------------------------------------------------------------ data model
ArtistNames == {"a1", "a2", "a3"}
TrackIDs == {"t1", "t2", "t3", "t4", "t5"}
PlaylistIDs == {"p1"}
ErrMsgs == {"intent error", "timeout"}

Features(e, v, a, i, d, t) ==
    [energy |-> e, valence |-> v, acousticness |-> a,
     instrumentalness |-> i, danceability |-> d, tempo |-> t]

ZeroFeatures == Features(0, 0, 0, 0, 0, 0)

Track(id, isrc, url, f) == [id |-> id, isrc |-> isrc, previewURL |-> url, features |-> f]

\* The catalog's answer for each track id (mapTrackToDomain of the wire
\* record); t3 has neither ISRC nor preview, t4 comes without features and
\* shares its ISRC with t1.
CatalogTrack ==
    [id \in TrackIDs |->
        CASE id = "t1" -> Track("t1", "US1", "u1", Features(30, 50, 20, 10, 40, 100))
          [] id = "t2" -> Track("t2", "US2", "u2", Features(50, 60, 80, 0, 50, 120))
          [] id = "t3" -> Track("t3", "", "", Features(90, 30, 50, 5, 60, 140))
          [] id = "t4" -> Track("t4", "US1", "u4", ZeroFeatures)
          [] OTHER     -> Track("t5", "US5", "u5", Features(70, 70, 30, 20, 80, 110))]

\* An artist with five distinct top tracks.
ProlificArtist == "a4"

\* What the catalog returns as an artist's top tracks, in catalog order.
TopTracksOf ==
    [a \in ArtistNames \cup {ProlificArtist} |->
        CASE a = "a1" -> <<CatalogTrack["t1"], CatalogTrack["t2"]>>
          [] a = "a2" -> <<CatalogTrack["t2"], CatalogTrack["t3"], CatalogTrack["t2"]>>
          [] a = "a3" -> <<CatalogTrack["t4"], CatalogTrack["t1"]>>
          [] OTHER    -> <<CatalogTrack["t1"], CatalogTrack["t2"], CatalogTrack["t3"],
                           CatalogTrack["t4"], CatalogTrack["t5"]>>]

\* domain.VibeConstraint behind a pointer: present = FALSE is the nil pointer.
NilConstraint == [present |-> FALSE, min |-> 0, max |-> 0]
Constraint(lo, hi) == [present |-> TRUE, min |-> lo, max |-> hi]

VibeConstraints(e, v, a, i) ==
    [Energy |-> e, Valence |-> v, Acoustic |-> a, Instrument |-> i]

VibeChoices ==
    { VibeConstraints(NilConstraint, NilConstraint, NilConstraint, NilConstraint),
      VibeConstraints(Constraint(50, 90), NilConstraint, NilConstraint, NilConstraint),
      VibeConstraints(Constraint(0, 0), Constraint(40, 60), NilConstraint, NilConstraint),
      VibeConstraints(Constraint(70, 0), NilConstraint, NilConstraint, NilConstraint),
      VibeConstraints(NilConstraint, NilConstraint, Constraint(0, 50), Constraint(5, 100)) }

SeqsUpTo(S, n) == UNION { [1..k -> S] : k \in 0..n }

EmptyIntent ==
    [Artists |-> <<>>,
     VibeConstraints |-> VibeConstraints(NilConstraint, NilConstraint,
                                         NilConstraint, NilConstraint)]

\* domain.IntentObject: the artists of Entities and the VibeConstraints;
\* one of them names the single prolific artist and sets no constraint.
IntentObjects ==
    { [Artists |-> as, VibeConstraints |-> vc] :
        as \in SeqsUpTo(ArtistNames, MaxArtists), vc \in VibeChoices }
    \cup { [EmptyIntent EXCEPT !.Artists = <<ProlificArtist>>] }

\* ---------------------------------------------------------------- errors
\* An error value: ctx is the context added by the outermost fmt.Errorf wrap
\* ("" when unwrapped), cause the innermost error's identity (what errors.Is
\* and errors.As find through %w), msg the innermost error's text (which
\* Error() of every wrapper still contains).
NoErr == [ctx |-> "none", cause |-> "none", msg |-> ""]
Err(ctx, cause, msg) == [ctx |-> ctx, cause |-> cause, msg |-> msg]

\* A wrap that formats only its own text and drops the wrapped error.
WrapOpaque(ctx, err) == Err(ctx, "generic", "")

\* fmt.Errorf("service: <ctx>: %w", err)
Wrap(ctx, err) == Err(ctx, err.cause, err.msg)

ErrContextCanceled == Err("", "canceled", "context canceled")
ErrNotFound == Err("", "NotFound", "domain: not found")
ErrDB == Err("", "generic", "db error")

\* IntentResult together with the error ProcessIntent returns.
IntentResult(err, intent, evaluated, added) ==
    [err |-> err, Intent |-> intent,
     TracksEvaluated |-> evaluated, TracksAdded |-> added]

NoResult == IntentResult(Err("pending", "none", ""), EmptyIntent, 0, 0)

\* ----------------------------------------------------------------- state
VARIABLES
    entry,              \* "http": through the handler, "direct": ProcessIntent called directly
    req,                \* the HTTP request of the intent endpoint
    compilerConfigured, \* o.intent != nil
    clientConnected,    \* the client still holds the connection
    hpc,                \* position of Handler.AnalyzeIntent
    httpStatus,         \* status code written by the handler (0: none yet)
    httpBody,           \* error text of a writeError response
    stream,             \* SSE events the handler has written, in order
    resultCh,           \* the buffered result channel of the handler
    tpc,                \* position of the goroutine running ProcessIntent
    intent,             \* ProcessIntent: intent
    existingTracks,     \* ProcessIntent: existingTracks
    artistIdx,          \* ProcessIntent: next artist of the fetch loop
    seenTracks,         \* ProcessIntent: seenTracks
    allTracks,          \* ProcessIntent: allTracks
    matchingTracks,     \* ProcessIntent: matchingTracks
    result,             \* what ProcessIntent returned
    calls,              \* collaborator calls made so far, with their outcome
    apc,                \* per add-track request: position of AddTrackToPlaylist
    aTrack,             \* per add-track request: track
    aPl,                \* per add-track request: pl.Tracks
    aErr,               \* per add-track request: the returned error
    jobs,               \* Pool.jobs: the buffered job channel
    wpc,                \* per worker: "unstarted", "idle", "processing" or "exited"
    wJob,               \* per worker: the job being processed
    updated,            \* track ids whose features a worker has persisted
    playlists,          \* table playlist_tracks: playlist id -> track ids in added order
    tracksTable,        \* table tracks: track id -> stored track row
    mcpc,               \* matchesConstraints called on its own: "off", "call", "done"
    mcFeatures,         \* matchesConstraints: features
    mcConstraints,      \* matchesConstraints: constraints
    mcResult,           \* matchesConstraints: the returned bool
    gpc,                \* position of Client.GetTrack
    gTitle,             \* GetTrack: title
    gArtist,            \* GetTrack: artist
    gEnv,               \* the environment variable SPOTIFY_MIN_CONFIDENCE
    gSearch,            \* the answer to the search request
    minConfidence,      \* searchTrack: minConfidence
    gIdx,               \* searchTrack: i of the loop over the items
    bestScore,          \* searchTrack: bestScore
    bestIndex,          \* searchTrack: bestIndex (from 0; -1: none)
    bestExactArtist,    \* searchTrack: bestExactArtist
    bestTitleMatch,     \* searchTrack: bestTitleMatch
    gTrack,             \* GetTrack: track, the item searchTrack returned
    gRequests,          \* the catalog requests GetTrack has issued, in order
    gFeatures,          \* the answer to the features request
    gOut,               \* what GetTrack returned
    plpc,               \* a domain.Playlist used on its own: "off" or "open"
    plTracks,           \* Playlist.Tracks
    plArg,              \* the track of the last AddTrack call
    plErr,              \* the error of the last AddTrack call
    plCalls,            \* number of AddTrack calls so far
    lpc,                \* a playlist lookup request: "off", "start" or "done"
    lOp,                \* the handler that served it
    lID,                \* r.PathValue("id")
    lPlaylists,         \* the playlists of the store and their linked track ids
    lDBFails,           \* the store query that fails: "no", "lookup" or "rows"
    lErr,               \* the error the service returned
    lStatus,            \* the status code written (0: none yet)
    lBody,              \* the response body
    queueSize,          \* NewPool: the queueSize argument
    sCalls,             \* number of Pool.Submit calls so far
    dropLog,            \* the track ids of the "dropping job" warnings, in order
    closed,             \* p.jobs is closed
    stpc,               \* Pool.Stop: "none", "waiting" (in wg.Wait) or "returned"
    panicked,           \* a goroutine panicked: the process is gone
    completed,          \* number of processJob calls that have returned
    dpc,                \* per caller of generateDeterministicFeatures: "idle" or "draw"
    dID,                \* per caller: trackID
    dRng,               \* per generator: the state of the rand.Rand
    dDrawn,             \* per caller: the values rng.Float64 has returned to it
    dReturned,          \* the calls that have returned: caller, trackID, features
    npc,                \* a normalisation applied on its own: "off", "in", "once" or "twice"
    nIn,                \* the input
    nOnce,              \* per function: the function applied to the input
    nTwice,             \* per function: the function applied to its own result
    rpc,                \* doRequestWithRetry: "off", "start", "loop", "sleep" or "done"
    cMaxRetries,        \* c.maxRetries
    rStatuses,          \* the server's answers in order, the last one repeated (0: transport error)
    rCtxDone,           \* req.Context() is cancelled
    rMaxRetries,        \* doRequestWithRetry: maxRetries
    rAttempt,           \* doRequestWithRetry: attempt
    rDone,              \* number of c.httpClient.Do calls made
    rResp,              \* the returned response's status (0: nil)
    rErr                \* the returned error ("": nil)

intentVars == <<entry, req, compilerConfigured, clientConnected, hpc, httpStatus,
                httpBody, stream, resultCh, tpc, intent, existingTracks, artistIdx,
                seenTracks, allTracks, matchingTracks, result, calls>>
addVars == <<apc, aTrack, aPl, aErr>>
poolVars == <<jobs, wpc, wJob, updated, completed>>
storeVars == <<playlists, tracksTable>>
filterVars == <<mcpc, mcFeatures, mcConstraints, mcResult>>
\* the functions and handlers exercised on their own
resolveVars == <<gpc, gTitle, gArtist, gEnv, gSearch, minConfidence, gIdx, bestScore,
                 bestIndex, bestExactArtist, bestTitleMatch, gTrack, gRequests,
                 gFeatures, gOut>>
playlistVars == <<plpc, plTracks, plArg, plErr, plCalls>>
lookupVars == <<lpc, lOp, lID, lPlaylists, lDBFails, lErr, lStatus, lBody>>
submitVars == <<queueSize, sCalls, dropLog, closed, stpc, panicked>>
genVars == <<dpc, dID, dRng, dDrawn, dReturned>>
normVars == <<npc, nIn, nOnce, nTwice>>
retryVars == <<rpc, cMaxRetries, rStatuses, rCtxDone, rMaxRetries, rAttempt, rDone, rResp, rErr>>
callVars == <<genVars, normVars, retryVars>>
unitVars == <<filterVars, resolveVars, playlistVars, lookupVars, submitVars, callVars>>
vars == <<intentVars, addVars, poolVars, storeVars, unitVars>>

\* ------------------------------------------------------- pure functions

\* A range check that excludes the lower bound.
checkConstraintExclusive(value, constraint) ==
    IF ~constraint.present THEN TRUE
    ELSE IF constraint.min = 0 /\ constraint.max = 0 THEN TRUE
    ELSE value > constraint.min /\ value <= constraint.max

\* A range check that takes a zero max for "no upper bound".
checkConstraintOpenMax(value, constraint) ==
    IF ~constraint.present THEN TRUE
    ELSE IF constraint.min = 0 /\ constraint.max = 0 THEN TRUE
    ELSE value >= constraint.min /\ (constraint.max = 0 \/ value <= constraint.max)

\* checkConstraint (orchestrator.go)
checkConstraint(value, constraint) ==
    IF ~constraint.present THEN TRUE
    ELSE IF constraint.min = 0 /\ constraint.max = 0 THEN TRUE
    ELSE value >= constraint.min /\ value <= constraint.max

\* A filter that never looks at the instrumentalness constraint.
matchesConstraintsThree(features, constraints) ==
    LET vc == constraints.VibeConstraints IN
    IF ~checkConstraint(features.energy, vc.Energy) THEN FALSE
    ELSE IF ~checkConstraint(features.valence, vc.Valence) THEN FALSE
    ELSE IF ~checkConstraint(features.acousticness, vc.Acoustic) THEN FALSE
    ELSE TRUE

\* matchesConstraints (orchestrator.go)
matchesConstraints(features, constraints) ==
    LET vc == constraints.VibeConstraints IN
    IF ~checkConstraint(features.energy, vc.Energy) THEN FALSE
    ELSE IF ~checkConstraint(features.valence, vc.Valence) THEN FALSE
    ELSE IF ~checkConstraint(features.acousticness, vc.Acoustic) THEN FALSE
    ELSE IF ~checkConstraint(features.instrumentalness, vc.Instrument) THEN FALSE
    ELSE TRUE

\* An inner loop that appends every track without consulting seenTracks.
DedupAppendAll(tracks, seen, all) ==
    [seen |-> seen \cup { tracks[i].id : i \in 1..Len(tracks) }, all |-> all \o tracks]

\* The inner loop of ProcessIntent's step 3 over one artist's tracks:
\* a track whose ID was seen is skipped, any other is marked and appended.
RECURSIVE DedupAppend(_, _, _)
DedupAppend(tracks, seen, all) ==
    IF tracks = <<>> THEN [seen |-> seen, all |-> all]
    ELSE LET track == Head(tracks) IN
         IF track.id \in seen
         THEN DedupAppend(Tail(tracks), seen, all)
         ELSE DedupAppend(Tail(tracks), seen \cup {track.id}, Append(all, track))

\* The loop of ProcessIntent's step 4.
RECURSIVE FilterTracks(_, _, _)
FilterTracks(all, existing, constraints) ==
    IF all = <<>> THEN <<>>
    ELSE LET track == Head(all)
             rest == FilterTracks(Tail(all), existing, constraints) IN
         IF track.id \in existing THEN rest
         ELSE IF matchesConstraints(track.features, constraints)
              THEN <<track>> \o rest
              ELSE rest

\* ------------------------------------------------------------- strings
\* A Go string is a sequence of one-character strings; the alphabet is
\* ASCII: lower-case letters, the upper-case letters A and B, the digit 1,
\* the space and the punctuation ( ) [ ] -.

LowerLetters ==
    { "a", "b", "c", "d", "e", "f", "g", "h", "i", "j", "k", "l", "m",
      "n", "o", "p", "q", "r", "s", "t", "u", "v", "w", "x", "y", "z" }

UpperLetters == {"A", "B"}
Digits == {"1"}

\* unicode.IsSpace
IsSpace(c) == c = " "

\* unicode.IsLetter(r) || unicode.IsDigit(r)
IsLetterOrDigit(c) == c \in LowerLetters \cup UpperLetters \cup Digits

\* unicode.ToLower
ToLowerRune(c) == IF c = "A" THEN "a" ELSE IF c = "B" THEN "b" ELSE c

\* strings.ToLower
ToLower(s) == [i \in 1..Len(s) |-> ToLowerRune(s[i])]

RECURSIVE TrimLeft(_)
TrimLeft(s) == IF s # <<>> /\ IsSpace(Head(s)) THEN TrimLeft(Tail(s)) ELSE s

RECURSIVE TrimRight(_)
TrimRight(s) ==
    IF s # <<>> /\ IsSpace(s[Len(s)]) THEN TrimRight(SubSeq(s, 1, Len(s) - 1)) ELSE s

\* strings.TrimSpace
TrimSpace(s) == TrimRight(TrimLeft(s))

\* strings.HasSuffix
HasSuffix(s, suffix) ==
    Len(s) >= Len(suffix) /\ SubSeq(s, Len(s) - Len(suffix) + 1, Len(s)) = suffix

\* positions (from 1) at which sub occurs in s
Occurrences(s, sub) ==
    { i \in 1..(Len(s) - Len(sub) + 1) : SubSeq(s, i, i + Len(sub) - 1) = sub }

\* strings.Contains
Contains(s, sub) == sub = <<>> \/ Occurrences(s, sub) # {}

\* strings.LastIndex, as a position from 1 (0: not found)
LastIndex(s, sub) ==
    IF Occurrences(s, sub) = {} THEN 0
    ELSE CHOOSE i \in Occurrences(s, sub) : \A j \in Occurrences(s, sub) : j <= i

\* strings.Fields: the maximal runs of non-space characters
RECURSIVE FieldsFrom(_, _, _)
FieldsFrom(s, cur, acc) ==
    IF s = <<>> THEN (IF cur = <<>> THEN acc ELSE Append(acc, cur))
    ELSE IF IsSpace(Head(s))
         THEN FieldsFrom(Tail(s), <<>>, IF cur = <<>> THEN acc ELSE Append(acc, cur))
         ELSE FieldsFrom(Tail(s), Append(cur, Head(s)), acc)

Fields(s) == FieldsFrom(s, <<>>, <<>>)

\* strings.Join
RECURSIVE Join(_, _)
Join(parts, sep) ==
    IF parts = <<>> THEN <<>>
    ELSE IF Len(parts) = 1 THEN parts[1]
    ELSE parts[1] \o sep \o Join(Tail(parts), sep)

\* cleanSeparators (normalize.go): letters and digits are kept, every run
\* of other characters becomes one space.
RECURSIVE cleanSeparatorsFrom(_, _, _)
cleanSeparatorsFrom(input, out, lastSpace) ==
    IF input = <<>> THEN out
    ELSE IF IsLetterOrDigit(Head(input))
         THEN cleanSeparatorsFrom(Tail(input), Append(out, Head(input)), FALSE)
         ELSE IF ~lastSpace
              THEN cleanSeparatorsFrom(Tail(input), Append(out, " "), TRUE)
              ELSE cleanSeparatorsFrom(Tail(input), out, TRUE)

cleanSeparators(input) == cleanSeparatorsFrom(input, <<>>, FALSE)

searchSuffixTokens ==
    { <<"c", "l", "e", "a", "n">>,
      <<"d", "e", "l", "u", "x", "e">>,
      <<"e", "d", "i", "t", "i", "o", "n">>,
      <<"e", "d", "i", "t">>,
      <<"e", "x", "p", "l", "i", "c", "i", "t">>,
      <<"f", "e", "a", "t">>,
      <<"f", "e", "a", "t", "u", "r", "i", "n", "g">>,
      <<"f", "t">>,
      <<"l", "i", "v", "e">>,
      <<"m", "i", "x">>,
      <<"m", "o", "n", "o">>,
      <<"r", "a", "d", "i", "o">>,
      <<"r", "e", "m", "a", "s", "t", "e", "r">>,
      <<"r", "e", "m", "a", "s", "t", "e", "r", "e", "d">>,
      <<"s", "t", "e", "r", "e", "o">>,
      <<"v", "e", "r", "s", "i", "o", "n">> }

\* suffixHasToken (mapper.go)
HasNoiseToken(tokens) == \E i \in 1..Len(tokens) : tokens[i] \in searchSuffixTokens

suffixHasToken(input) ==
    IF TrimSpace(input) = <<>> THEN FALSE
    ELSE HasNoiseToken(Fields(cleanSeparators(ToLower(input))))

\* one bracket pair of trimBracketedSuffix
\* idx is strings.LastIndex(trimmed, open)
TrimBracketAt(input, trimmed, idx, close) ==
    IF HasSuffix(trimmed, <<close>>) /\ idx # 0 /\ idx < Len(trimmed)
          /\ suffixHasToken(SubSeq(trimmed, idx + 1, Len(trimmed) - 1))
    THEN [cut |-> TRUE, out |-> TrimSpace(SubSeq(trimmed, 1, idx - 1))]
    ELSE [cut |-> FALSE, out |-> input]

TrimBracket(input, trimmed, open, close) ==
    TrimBracketAt(input, trimmed, LastIndex(trimmed, <<open>>), close)

\* the first pair of trimBracketedSuffix that cuts, the round one first
FirstCut(input, round, square) ==
    IF round.cut THEN round.out
    ELSE IF square.cut THEN square.out
    ELSE input

\* trimBracketedSuffix on trimmed, which is strings.TrimSpace(input)
trimBracketedSuffixOf(input, trimmed) ==
    FirstCut(input, TrimBracket(input, trimmed, "(", ")"), TrimBracket(input, trimmed, "[", "]"))

\* trimBracketedSuffix (mapper.go)
trimBracketedSuffix(input) == trimBracketedSuffixOf(input, TrimSpace(input))

\* idx is strings.LastIndex(trimmed, " - ")
trimDashSuffixAt(input, trimmed, idx) ==
    IF idx = 0 THEN input
    ELSE IF suffixHasToken(TrimSpace(SubSeq(trimmed, idx + 3, Len(trimmed))))
         THEN TrimSpace(SubSeq(trimmed, 1, idx - 1))
         ELSE input

\* trimDashSuffix on trimmed, which is strings.TrimSpace(input)
trimDashSuffixOf(input, trimmed) ==
    trimDashSuffixAt(input, trimmed, LastIndex(trimmed, <<" ", "-", " ">>))

\* trimDashSuffix (mapper.go)
trimDashSuffix(input) == trimDashSuffixOf(input, TrimSpace(input))

\* the loop of stripCommonSuffixes (mapper.go): next is the value after
\* one round of both trims
RECURSIVE stripLoop(_)
stripStep(trimmed, next) ==
    IF next = trimmed THEN trimmed ELSE stripLoop(TrimSpace(next))

stripLoop(trimmed) == stripStep(trimmed, trimDashSuffix(trimBracketedSuffix(trimmed)))

\* stripCommonSuffixes (mapper.go)
stripCommonSuffixes(input) == stripLoop(TrimSpace(input))

\* Normalize without its last line: the cleaned string as it is
NormalizeUnjoined(input) ==
    IF TrimSpace(input) = <<>> THEN <<>>
    ELSE cleanSeparators(stripCommonSuffixes(ToLower(TrimSpace(input))))

\* Normalize (mapper.go)
Normalize(input) ==
    IF TrimSpace(input) = <<>> THEN <<>>
    ELSE LET lowered == ToLower(TrimSpace(input))
             trimmed == stripCommonSuffixes(lowered)
             cleaned == cleanSeparators(trimmed) IN
         Join(Fields(cleaned), <<" ">>)

\* noiseTokens (normalize.go)
noiseTokens ==
    { <<"c", "l", "e", "a", "n">>,
      <<"d", "e", "l", "u", "x", "e">>,
      <<"e", "d", "i", "t", "i", "o", "n">>,
      <<"e", "d", "i", "t">>,
      <<"e", "x", "p", "l", "i", "c", "i", "t">>,
      <<"f", "e", "a", "t">>,
      <<"f", "e", "a", "t", "u", "r", "i", "n", "g">>,
      <<"f", "t">>,
      <<"l", "i", "v", "e">>,
      <<"m", "i", "x">>,
      <<"m", "o", "n", "o">>,
      <<"r", "a", "d", "i", "o">>,
      <<"r", "e", "m", "a", "s", "t", "e", "r">>,
      <<"r", "e", "m", "a", "s", "t", "e", "r", "e", "d">>,
      <<"s", "t", "e", "r", "e", "o">>,
      <<"v", "e", "r", "s", "i", "o", "n">> }

\* stripBracketedSegments (normalize.go): the characters outside every
\* bracket pair
RECURSIVE stripBracketedFrom(_, _, _)
stripBracketedFrom(input, out, depth) ==
    IF input = <<>> THEN out
    ELSE IF Head(input) \in {"(", "["}
         THEN stripBracketedFrom(Tail(input), out, depth + 1)
    ELSE IF Head(input) \in {")", "]"}
         THEN stripBracketedFrom(Tail(input), out, IF depth > 0 THEN depth - 1 ELSE depth)
    ELSE stripBracketedFrom(Tail(input), IF depth = 0 THEN Append(out, Head(input)) ELSE out,
                            depth)

stripBracketedSegments(input) == stripBracketedFrom(input, <<>>, 0)

\* the loop of normalizeSearchInput over the tokens
RECURSIVE DropNoise(_)
DropNoise(tokens) ==
    IF tokens = <<>> THEN <<>>
    ELSE IF Head(tokens) \in noiseTokens THEN DropNoise(Tail(tokens))
    ELSE <<Head(tokens)>> \o DropNoise(Tail(tokens))

\* normalizeSearchInput (normalize.go)
normalizeSearchInput(input) ==
    IF input = <<>> THEN <<>>
    ELSE Join(DropNoise(Fields(cleanSeparators(stripBracketedSegments(ToLower(input))))),
              <<" ">>)

\* ------------------------------------------------------------- scoring
\* A float64 score in [0, 1] is the integer score * ScoreScale; the scale is
\* a multiple of every string length that occurs, so 1 - distance/maxLen
\* and the boosts 0.4 and 0.3 are exact.
ScoreScale == 25200

min3(a, b, c) ==
    LET m1 == IF b < a THEN b ELSE a IN IF c < m1 THEN c ELSE m1

maxInt(a, b) == IF a > b THEN a ELSE b

\* one row of levenshteinDistance: curr[0..j-1] is filled, ch is ra[i-1]
RECURSIVE LevenshteinRow(_, _, _, _)
LevenshteinRow(prev, curr, ch, rb) ==
    IF Len(curr) = Len(rb) + 1 THEN curr
    ELSE LET j == Len(curr)
             cost == IF ch # rb[j] THEN 1 ELSE 0 IN
         LevenshteinRow(prev,
                        Append(curr, min3(prev[j + 1] + 1, curr[j] + 1, prev[j] + cost)),
                        ch, rb)

RECURSIVE LevenshteinRows(_, _, _, _)
LevenshteinRows(ra, rb, i, prev) ==
    IF i > Len(ra) THEN prev[Len(rb) + 1]
    ELSE LevenshteinRows(ra, rb, i + 1, LevenshteinRow(prev, <<i>>, ra[i], rb))

\* levenshteinDistance (mapper.go)
levenshteinDistance(a, b) ==
    IF Len(a) = 0 THEN Len(b)
    ELSE IF Len(b) = 0 THEN Len(a)
    ELSE LevenshteinRows(a, b, 1, [j \in 1..(Len(b) + 1) |-> j - 1])

\* similarity (mapper.go)
similarity(a, b) ==
    IF a = b THEN ScoreScale
    ELSE IF maxInt(Len(a), Len(b)) = 0 THEN ScoreScale
    ELSE ScoreScale - (levenshteinDistance(a, b) * ScoreScale) \div maxInt(Len(a), Len(b))

\* ScoreResult (mapper.go)
\* ScoreResult on the two normalized strings
ScoreNormalized(target, actual) ==
    IF target = <<>> \/ actual = <<>> THEN 0
    ELSE similarity(target, actual)

ScoreResult(targetArtist, targetTitle, actualArtist, actualTitle) ==
    ScoreNormalized(Normalize(TrimSpace(targetArtist \o <<" ">> \o targetTitle)),
                    Normalize(TrimSpace(actualArtist \o <<" ">> \o actualTitle)))

\* spotifyTrack (models.go): the fields the resolver reads
SpotifyTrack(id, name, artists, isrc) ==
    [ID |-> id, Name |-> name, Artists |-> artists, ISRC |-> isrc]

NoSpotifyTrack == SpotifyTrack("", <<>>, <<>>, "")

\* joinArtistNames (mapper.go)
joinArtistNames(track) == Join(track.Artists, <<" ">>)

\* artistExactMatch (searchTrack's file)
artistExactMatch(candidate, target) ==
    IF TrimSpace(target) = <<>> THEN FALSE
    ELSE \E i \in 1..Len(candidate.Artists) :
            ToLower(TrimSpace(candidate.Artists[i])) = ToLower(TrimSpace(target))

\* titleSubstringMatch (searchTrack's file)
ContainsNonEmpty(ct, tt) == IF ct = <<>> \/ tt = <<>> THEN FALSE ELSE Contains(ct, tt)

titleSubstringMatch(candidateTitle, targetTitle) ==
    ContainsNonEmpty(ToLower(TrimSpace(candidateTitle)), ToLower(TrimSpace(targetTitle)))

ArtistBoost == (4 * ScoreScale) \div 10
TitleBoost == (3 * ScoreScale) \div 10

\* the score of one candidate in searchTrack's loop: ScoreResult, plus 0.4
\* for an exact artist, plus 0.3 for a title substring, at most 1.0
Boosted(score, boost, applies) == IF applies THEN score + boost ELSE score
Clamped(score) == IF score > ScoreScale THEN ScoreScale ELSE score

FinalScore(candidate, title, artist) ==
    Clamped(Boosted(Boosted(ScoreResult(artist, title, joinArtistNames(candidate),
                                        candidate.Name),
                            ArtistBoost, artistExactMatch(candidate, artist)),
                    TitleBoost, titleSubstringMatch(candidate.Name, title)))

defaultSearchMatchThreshold == ScoreScale \div 2

\* os.Getenv("SPOTIFY_MIN_CONFIDENCE"): unset, not a number, or a number
EnvUnset == [kind |-> "unset", value |-> 0]
EnvMalformed == [kind |-> "malformed", value |-> 0]
EnvNumber(tenths) == [kind |-> "number", value |-> (tenths * ScoreScale) \div 10]

\* getMinConfidence (searchTrack's file)
getMinConfidence(env) ==
    IF env.kind = "unset" THEN defaultSearchMatchThreshold
    ELSE IF env.kind = "malformed" THEN defaultSearchMatchThreshold
    ELSE IF env.value < 0 THEN 0
    ELSE IF env.value > ScoreScale THEN ScoreScale
    ELSE env.value

\* ------------------------------------------------------------ the store

\* Adapter.GetByID on an existing playlist: the linked rows of table tracks
\* in added order.
LoadPlaylist(id) ==
    [ID |-> id,
     Tracks |-> [i \in 1..Len(playlists[id]) |-> tracksTable[playlists[id][i]]]]

UpsertTrack(tt, t) ==
    [x \in (DOMAIN tt) \cup {t.id} |-> IF x = t.id THEN t ELSE tt[x]]

RECURSIVE UpsertTracks(_, _)
UpsertTracks(tt, tracks) ==
    IF tracks = <<>> THEN tt
    ELSE UpsertTracks(UpsertTrack(tt, Head(tracks)), Tail(tracks))

HasLink(links, id) == \E i \in 1..Len(links) : links[i] = id

RECURSIVE LinkTracks(_, _)
LinkTracks(links, tracks) ==
    IF tracks = <<>> THEN links
    ELSE LinkTracks(IF HasLink(links, Head(tracks).id) THEN links
                    ELSE Append(links, Head(tracks).id),
                    Tail(tracks))

\* PlaylistStore.addTracksBatch: the batch is appended to the playlist's
\* track list; the rows of the tracks are written with it.
AddTracksToPlaylistLinks(links, tracks) == LinkTracks(links, tracks)
AddTracksToPlaylistRows(tt, tracks) == UpsertTracks(tt, tracks)

\* ------------------------------------------------------- the intent task

\* One collaborator call: its operation, its argument, the error it returned
\* and the tracks it returned (a fetch) or was given (a batch-add).
Call(op, arg, err, tracks) == [op |-> op, arg |-> arg, err |-> err, tracks |-> tracks]

\* r.Context(): done once the client is gone or the handler has returned.
RequestCtxDone == ~clientConnected \/ hpc = "done"

\* context.WithoutCancel(r.Context()): never done.
DetachedCtxDone == FALSE

\* The context ProcessIntent runs under.
TaskCtxDone == IF entry = "http" THEN DetachedCtxDone ELSE FALSE

taskLocals == <<intent, existingTracks, artistIdx, seenTracks, allTracks, matchingTracks>>
handlerVars == <<hpc, httpStatus, httpBody, stream>>
\* what no step of the intent path changes
inputVars == <<entry, req, compilerConfigured, addVars, poolVars, unitVars>>

\* ProcessIntent entry: o.intent == nil
PI_CheckCompiler ==
    /\ tpc = "start"
    /\ IF ~compilerConfigured
       THEN /\ result' = IntentResult(Err("", "NotConfigured",
                                          "service: intent compiler not configured"),
                                      EmptyIntent, 0, 0)
            /\ tpc' = "return"
       ELSE /\ tpc' = "analyze"
            /\ UNCHANGED result
    /\ UNCHANGED <<inputVars, clientConnected, handlerVars, resultCh, taskLocals,
                   calls, storeVars>>

\* Outcomes of o.intent.AnalyzeIntent(ctx, message)
AnalyzeOutcomes ==
    IF TaskCtxDone
    THEN { [err |-> ErrContextCanceled, intent |-> EmptyIntent] }
    ELSE { [err |-> NoErr, intent |-> i] : i \in IntentObjects }
         \cup { [err |-> Err("", "generic", m), intent |-> EmptyIntent] : m \in ErrMsgs }

\* 1. Analyze intent from message
PI_AnalyzeIntent ==
    /\ tpc = "analyze"
    /\ \E out \in AnalyzeOutcomes :
        /\ calls' = Append(calls, Call("AnalyzeIntent", req.message, out.err, <<>>))
        /\ IF out.err # NoErr
           THEN /\ result' = IntentResult(Wrap("failed to analyze intent", out.err),
                                          EmptyIntent, 0, 0)
                /\ tpc' = "return"
                /\ UNCHANGED intent
           ELSE /\ intent' = out.intent
                /\ tpc' = "load"
                /\ UNCHANGED result
    /\ UNCHANGED <<inputVars, clientConnected, handlerVars, resultCh, existingTracks,
                   artistIdx, seenTracks, allTracks, matchingTracks, storeVars>>

\* Outcomes of o.repo.GetByID(ctx, id)
GetByIDOutcomes(ctxDone, id) ==
    IF ctxDone THEN { ErrContextCanceled }
    ELSE IF id \notin DOMAIN playlists THEN { ErrNotFound }
    ELSE { NoErr, ErrDB }

\* 2. Get existing playlist, build the set of existing track IDs
PI_GetByID ==
    /\ tpc = "load"
    /\ \E err \in GetByIDOutcomes(TaskCtxDone, req.playlistID) :
        /\ calls' = Append(calls, Call("GetByID", req.playlistID, err, <<>>))
        /\ IF err # NoErr
           THEN /\ result' = IntentResult(Wrap("failed to load playlist", err),
                                          EmptyIntent, 0, 0)
                /\ tpc' = "return"
                /\ UNCHANGED <<existingTracks, artistIdx, seenTracks, allTracks>>
           ELSE /\ LET playlist == LoadPlaylist(req.playlistID) IN
                   existingTracks' = { playlist.Tracks[i].id : i \in 1..Len(playlist.Tracks) }
                /\ allTracks' = <<>>
                /\ seenTracks' = {}
                /\ artistIdx' = 1
                /\ tpc' = "fetch"
                /\ UNCHANGED result
    /\ UNCHANGED <<inputVars, clientConnected, handlerVars, resultCh, intent,
                   matchingTracks, storeVars>>

\* Outcomes of o.spotify.GetArtistTopTracks(ctx, artist)
GetArtistTopTracksOutcomes(ctxDone, artist) ==
    IF ctxDone THEN { [err |-> ErrContextCanceled, tracks |-> <<>>] }
    ELSE { [err |-> NoErr, tracks |-> TopTracksOf[artist]],
           [err |-> Err("", "generic", "spotify adapter: failed to find artist"),
            tracks |-> <<>>] }

\* A fetch loop that returns the artist's error instead of continuing.
PI_FetchArtistFatal ==
    /\ tpc = "fetch"
    /\ artistIdx <= Len(intent.Artists)
    /\ LET artist == intent.Artists[artistIdx] IN
       \E out \in GetArtistTopTracksOutcomes(TaskCtxDone, artist) :
        /\ calls' = Append(calls, Call("GetArtistTopTracks", artist, out.err, out.tracks))
        /\ IF out.err # NoErr
           THEN /\ result' = IntentResult(Wrap("failed to fetch artist", out.err),
                                          EmptyIntent, 0, 0)
                /\ tpc' = "return"
                /\ UNCHANGED <<seenTracks, allTracks>>
           ELSE LET d == DedupAppend(out.tracks, seenTracks, allTracks) IN
                /\ seenTracks' = d.seen
                /\ allTracks' = d.all
                /\ UNCHANGED <<tpc, result>>
    /\ artistIdx' = artistIdx + 1
    /\ UNCHANGED <<inputVars, clientConnected, handlerVars, resultCh, intent,
                   existingTracks, matchingTracks, storeVars>>

\* 3. One iteration of the loop over intent.Entities.Artists
PI_FetchArtist ==
    /\ tpc = "fetch"
    /\ artistIdx <= Len(intent.Artists)
    /\ LET artist == intent.Artists[artistIdx] IN
       \E out \in GetArtistTopTracksOutcomes(TaskCtxDone, artist) :
        /\ calls' = Append(calls, Call("GetArtistTopTracks", artist, out.err, out.tracks))
        /\ IF out.err # NoErr
           THEN UNCHANGED <<seenTracks, allTracks>>
           ELSE LET d == DedupAppend(out.tracks, seenTracks, allTracks) IN
                /\ seenTracks' = d.seen
                /\ allTracks' = d.all
    /\ artistIdx' = artistIdx + 1
    /\ UNCHANGED <<inputVars, clientConnected, handlerVars, resultCh, tpc, intent,
                   existingTracks, matchingTracks, result, storeVars>>

\* A pipeline that filters and persists without waiting for the last artist.
PI_FilterEarly ==
    /\ tpc = "fetch"
    /\ matchingTracks' = FilterTracks(allTracks, existingTracks, intent)
    /\ tpc' = "persist"
    /\ UNCHANGED <<inputVars, clientConnected, handlerVars, resultCh, intent,
                   existingTracks, artistIdx, seenTracks, allTracks, result, calls,
                   storeVars>>

\* 4. Filter tracks based on vibe constraints (after the last artist)
PI_Filter ==
    /\ tpc = "fetch"
    /\ artistIdx > Len(intent.Artists)
    /\ matchingTracks' = FilterTracks(allTracks, existingTracks, intent)
    /\ tpc' = "persist"
    /\ UNCHANGED <<inputVars, clientConnected, handlerVars, resultCh, intent,
                   existingTracks, artistIdx, seenTracks, allTracks, result, calls,
                   storeVars>>

\* Outcomes of o.repo.AddTracksToPlaylist(ctx, id, tracks)
AddTracksToPlaylistOutcomes(ctxDone) ==
    IF ctxDone THEN { ErrContextCanceled } ELSE { NoErr, ErrDB }

\* A result that counts the tracks after filtering in both fields.
BuildResultAfterFilter(intentObj, all, matching) ==
    IntentResult(NoErr, intentObj, Len(matching), Len(matching))

\* 6. Build summary: the IntentResult of a run that succeeded.
BuildResult(intentObj, all, matching) ==
    IntentResult(NoErr, intentObj, Len(all), Len(matching))

\* 5. Add matching tracks to playlist, 6. build the result
PI_Persist ==
    /\ tpc = "persist"
    /\ IF Len(matchingTracks) > 0
       THEN \E err \in AddTracksToPlaylistOutcomes(TaskCtxDone) :
            /\ calls' = Append(calls, Call("AddTracksToPlaylist", req.playlistID,
                                           err, matchingTracks))
            /\ IF err # NoErr
               THEN /\ result' = IntentResult(Wrap("failed to add tracks to playlist", err),
                                              EmptyIntent, 0, 0)
                    /\ UNCHANGED storeVars
               ELSE /\ playlists' = [playlists EXCEPT ![req.playlistID] =
                                        AddTracksToPlaylistLinks(@, matchingTracks)]
                    /\ tracksTable' = AddTracksToPlaylistRows(tracksTable, matchingTracks)
                    /\ result' = BuildResult(intent, allTracks, matchingTracks)
       ELSE /\ result' = BuildResult(intent, allTracks, matchingTracks)
            /\ UNCHANGED <<calls, storeVars>>
    /\ tpc' = "return"
    /\ UNCHANGED <<inputVars, clientConnected, handlerVars, resultCh, taskLocals>>

ResultChCap == 1

\* The send on a channel without a buffer: it completes only while the
\* handler is in its select to receive.
PI_ReturnUnbuffered ==
    /\ tpc = "return"
    /\ IF entry = "http"
       THEN /\ hpc = "wait"
            /\ resultCh = <<>>
            /\ resultCh' = Append(resultCh, result)
       ELSE UNCHANGED resultCh
    /\ tpc' = "done"
    /\ UNCHANGED <<inputVars, clientConnected, handlerVars, taskLocals, result, calls,
                   storeVars>>

\* ProcessIntent has returned: the goroutine sends the wrapper on resultCh;
\* a direct caller just has the result.
PI_Return ==
    /\ tpc = "return"
    /\ IF entry = "http"
       THEN /\ Len(resultCh) < ResultChCap
            /\ resultCh' = Append(resultCh, result)
       ELSE UNCHANGED resultCh
    /\ tpc' = "done"
    /\ UNCHANGED <<inputVars, clientConnected, handlerVars, taskLocals, result, calls,
                   storeVars>>

\* A caller other than the handler invokes ProcessIntent.
DirectCall ==
    /\ entry = "direct"
    /\ tpc = "idle"
    /\ tpc' = "start"
    /\ UNCHANGED <<inputVars, clientConnected, handlerVars, resultCh, taskLocals,
                   result, calls, storeVars>>

TaskStep ==
    \/ PI_CheckCompiler
    \/ PI_AnalyzeIntent
    \/ PI_GetByID
    \/ PI_FetchArtist
    \/ PI_Filter
    \/ PI_Persist
    \/ PI_Return

\* ----------------------------------------------------------- the handler

Event(status, err, intentObj, evaluated, added) ==
    [status |-> status, error |-> err, data |-> intentObj,
     tracks_evaluated |-> evaluated, tracks_added |-> added]

StatusEvent(status) == Event(status, NoErr, EmptyIntent, 0, 0)

\* writeSSEEvent: the event is written and flushed; the write can only fail
\* once the client is gone.
writeSSEEventOutcomes == IF clientConnected THEN { TRUE } ELSE { TRUE, FALSE }

\* A handler that does not look at the compiler.
HasIntentCompilerAlways == TRUE

\* Orchestrator.HasIntentCompiler
HasIntentCompiler == compilerConfigured

taskVars == <<tpc, taskLocals, result, calls>>

\* writeError(w, status, msg); return
WriteError(status, msg) ==
    /\ httpStatus' = status
    /\ httpBody' = msg
    /\ hpc' = "done"

\* AnalyzeIntent up to the SSE headers: the request checks, in code order.
H_Validate ==
    /\ entry = "http"
    /\ hpc = "start"
    /\ IF ~req.contentTypeJSON
       THEN WriteError(415, "Content-Type must be application/json")
       ELSE IF req.playlistID = ""
       THEN WriteError(400, "playlist id is required")
       ELSE IF ~HasIntentCompiler
       THEN WriteError(501, "intent compiler not configured")
       ELSE IF ~req.bodyOK
       THEN WriteError(400, "Invalid request body")
       ELSE IF req.message = ""
       THEN WriteError(400, "message is required")
       ELSE /\ hpc' = "sse"
            /\ UNCHANGED <<httpStatus, httpBody>>
    /\ UNCHANGED <<inputVars, clientConnected, stream, resultCh, taskVars, storeVars>>

\* A handler that starts the goroutine whether or not the first write
\* succeeded.
H_WriteThinkingThenLaunch ==
    /\ hpc = "sse"
    /\ stream' = Append(stream, StatusEvent("thinking"))
    /\ httpStatus' = 200
    /\ tpc' = "start"
    /\ \E ok \in writeSSEEventOutcomes : hpc' = IF ok THEN "wait" ELSE "done"
    /\ UNCHANGED <<inputVars, clientConnected, httpBody, resultCh, taskLocals, result,
                   calls, storeVars>>

\* The initial "thinking" event; when it was written the goroutine running
\* ProcessIntent is started and the handler enters its wait loop.
H_WriteThinking ==
    /\ hpc = "sse"
    /\ stream' = Append(stream, StatusEvent("thinking"))
    /\ httpStatus' = 200
    /\ \E ok \in writeSSEEventOutcomes :
        IF ok
        THEN /\ hpc' = "wait"
             /\ tpc' = "start"
        ELSE /\ hpc' = "done"
             /\ UNCHANGED tpc
    /\ UNCHANGED <<inputVars, clientConnected, httpBody, resultCh, taskLocals, result,
                   calls, storeVars>>

Heartbeats == Len(SelectSeq(stream, LAMBDA e : e.status = "heartbeat"))

\* case <-ticker.C
H_Heartbeat ==
    /\ hpc = "wait"
    /\ Heartbeats < MaxHeartbeats
    /\ stream' = Append(stream, StatusEvent("heartbeat"))
    /\ \E ok \in writeSSEEventOutcomes :
        hpc' = IF ok THEN "wait" ELSE "done"
    /\ UNCHANGED <<inputVars, clientConnected, httpStatus, httpBody, resultCh, taskVars,
                   storeVars>>

\* case <-r.Context().Done()
H_CtxDone ==
    /\ hpc = "wait"
    /\ ~clientConnected
    /\ hpc' = "done"
    /\ UNCHANGED <<inputVars, clientConnected, httpStatus, httpBody, stream, resultCh,
                   taskVars, storeVars>>

\* A result case that writes the error event and stays in the loop.
H_ResultNoReturn ==
    /\ hpc = "wait"
    /\ resultCh # <<>>
    /\ LET wrapper == Head(resultCh) IN
       /\ stream' = Append(stream,
                    IF wrapper.err # NoErr
                    THEN Event("error", wrapper.err, EmptyIntent, 0, 0)
                    ELSE Event("complete", NoErr, wrapper.Intent,
                               wrapper.TracksEvaluated, wrapper.TracksAdded))
       /\ hpc' = IF wrapper.err # NoErr THEN "wait" ELSE "done"
    /\ resultCh' = Tail(resultCh)
    /\ UNCHANGED <<inputVars, clientConnected, httpStatus, httpBody, taskVars, storeVars>>

\* case wrapper := <-resultCh
H_Result ==
    /\ hpc = "wait"
    /\ resultCh # <<>>
    /\ LET wrapper == Head(resultCh) IN
       stream' = Append(stream,
                    IF wrapper.err # NoErr
                    THEN Event("error", wrapper.err, EmptyIntent, 0, 0)
                    ELSE Event("complete", NoErr, wrapper.Intent,
                               wrapper.TracksEvaluated, wrapper.TracksAdded))
    /\ resultCh' = Tail(resultCh)
    /\ hpc' = "done"
    /\ UNCHANGED <<inputVars, clientConnected, httpStatus, httpBody, taskVars, storeVars>>

HandlerStep ==
    \/ H_Validate
    \/ H_WriteThinking
    \/ H_Heartbeat
    \/ H_CtxDone
    \/ H_Result

\* The client closes the connection.
ClientDisconnect ==
    /\ entry = "http"
    /\ clientConnected
    /\ clientConnected' = FALSE
    /\ UNCHANGED <<inputVars, handlerVars, resultCh, taskVars, storeVars>>

\* ---------------------------------------------------- the add-track path

Adders == {"r1", "r2"}
Workers == {"w1", "w2"}

\* Pool.Start(n): the first n workers run the loop
Start(n) == [w \in Workers |-> IF (w = "w1" /\ n >= 1) \/ (w = "w2" /\ n >= 2)
                               THEN "idle" ELSE "unstarted"]
QueueSize == 2
ResolvableIDs == {"t1", "t2", "t3"}

ErrDuplicateISRC == Err("", "DuplicateISRC", "domain: duplicate ISRC")
ErrNoConfidentMatch == Err("", "NoConfidentMatch", "no confident match")

NoTrack == Track("", "", "", ZeroFeatures)
NoJob == [TrackID |-> "", PreviewURL |-> ""]

\* what no step of the add-track path or of the pool changes
intentFrame == <<entry, req, compilerConfigured, clientConnected, handlerVars,
                 resultCh, taskVars, unitVars>>

\* An AddTrack that compares the ISRC with the last track only.
AddTrackLastOnly(tracks, t) ==
    IF t.isrc # "" /\ tracks # <<>> /\ tracks[Len(tracks)].isrc = t.isrc
    THEN [err |-> ErrDuplicateISRC, tracks |-> tracks]
    ELSE [err |-> NoErr, tracks |-> Append(tracks, t)]

\* Playlist.AddTrack (playlist.go): the error and the track list afterwards.
AddTrack(tracks, t) ==
    IF t.isrc # "" /\ \E i \in 1..Len(tracks) : tracks[i].isrc # "" /\ tracks[i].isrc = t.isrc
    THEN [err |-> ErrDuplicateISRC, tracks |-> tracks]
    ELSE [err |-> NoErr, tracks |-> Append(tracks, t)]

\* Adapter.Save, the links: DELETE FROM playlist_tracks, then one INSERT per
\* track of p.Tracks with ON CONFLICT(playlist_id, track_id) DO NOTHING.
SaveLinks(tracks) == LinkTracks(<<>>, tracks)

\* Adapter.Save, the rows: one INSERT ... ON CONFLICT(id) DO UPDATE SET per
\* track of p.Tracks, all columns taken from the track as passed in.
SaveRows(tt, tracks) == UpsertTracks(tt, tracks)

\* Outcomes of o.spotify.GetTrack(ctx, title, artist)
GetTrackOutcomes ==
    { [err |-> NoErr, track |-> CatalogTrack[id]] : id \in ResolvableIDs }
    \cup { [err |-> ErrNoConfidentMatch, track |-> NoTrack] }

\* 1. Fetch track metadata from Spotify
ATP_GetTrack(r) ==
    /\ apc[r] = "resolve"
    /\ \E out \in GetTrackOutcomes :
        IF out.err # NoErr
        THEN /\ aErr' = [aErr EXCEPT ![r] = Wrap("failed to fetch track", out.err)]
             /\ apc' = [apc EXCEPT ![r] = "failed"]
             /\ UNCHANGED aTrack
        ELSE /\ aTrack' = [aTrack EXCEPT ![r] = out.track]
             /\ apc' = [apc EXCEPT ![r] = "load"]
             /\ UNCHANGED aErr
    /\ UNCHANGED <<intentFrame, aPl, poolVars, storeVars>>

\* 2. Load playlist from local repository
ATP_GetByID(r) ==
    /\ apc[r] = "load"
    /\ \E err \in GetByIDOutcomes(FALSE, "p1") :
        IF err # NoErr
        THEN /\ aErr' = [aErr EXCEPT ![r] = Wrap("failed to load playlist", err)]
             /\ apc' = [apc EXCEPT ![r] = "failed"]
             /\ UNCHANGED aPl
        ELSE /\ aPl' = [aPl EXCEPT ![r] = LoadPlaylist("p1").Tracks]
             /\ apc' = [apc EXCEPT ![r] = "mutate"]
             /\ UNCHANGED aErr
    /\ UNCHANGED <<intentFrame, aTrack, poolVars, storeVars>>

\* A step 3 that goes on to Save whatever pl.AddTrack returned.
ATP_AddTrackUnchecked(r) ==
    /\ apc[r] = "mutate"
    /\ LET res == AddTrack(aPl[r], aTrack[r]) IN
        /\ aPl' = [aPl EXCEPT ![r] = res.tracks]
        /\ apc' = [apc EXCEPT ![r] = "save"]
        /\ UNCHANGED aErr
    /\ UNCHANGED <<intentFrame, aTrack, poolVars, storeVars>>

\* 3. Mutate the playlist
ATP_AddTrack(r) ==
    /\ apc[r] = "mutate"
    /\ LET res == AddTrack(aPl[r], aTrack[r]) IN
        IF res.err # NoErr
        THEN /\ aErr' = [aErr EXCEPT ![r] = Wrap("domain rule violation", res.err)]
             /\ apc' = [apc EXCEPT ![r] = "failed"]
             /\ UNCHANGED aPl
        ELSE /\ aPl' = [aPl EXCEPT ![r] = res.tracks]
             /\ apc' = [apc EXCEPT ![r] = "save"]
             /\ UNCHANGED aErr
    /\ UNCHANGED <<intentFrame, aTrack, poolVars, storeVars>>

\* Outcomes of o.repo.Save(ctx, p): the transaction commits or rolls back.
SaveOutcomes == { NoErr, ErrDB }

\* 4. Persist the updated playlist (one transaction)
ATP_Save(r) ==
    /\ apc[r] = "save"
    /\ \E err \in SaveOutcomes :
        IF err # NoErr
        THEN /\ aErr' = [aErr EXCEPT ![r] = Wrap("failed to save playlist", err)]
             /\ apc' = [apc EXCEPT ![r] = "failed"]
             /\ UNCHANGED storeVars
        ELSE /\ playlists' = [playlists EXCEPT !["p1"] = SaveLinks(aPl[r])]
             /\ tracksTable' = SaveRows(tracksTable, aPl[r])
             /\ aErr' = [aErr EXCEPT ![r] = NoErr]
             /\ apc' = [apc EXCEPT ![r] = "saved"]
    /\ UNCHANGED <<intentFrame, aTrack, aPl, poolVars>>

\* NewPool: cap(p.jobs), the queue size raised to 1 when it is below 1
Capacity == IF queueSize < 1 THEN 1 ELSE queueSize

\* A send that always finds room.
SubmitUnbounded(queue, job) == Append(queue, job)

\* Pool.Submit: the channel after a non-blocking send.
Submit(queue, job) == IF Len(queue) < Capacity THEN Append(queue, job) ELSE queue

\* After a successful add the handler submits one job for the added track.
ATP_Submit(r) ==
    /\ apc[r] = "saved"
    /\ jobs' = Submit(jobs, [TrackID |-> aTrack[r].id, PreviewURL |-> aTrack[r].previewURL])
    /\ apc' = [apc EXCEPT ![r] = "done"]
    /\ UNCHANGED <<intentFrame, aTrack, aPl, aErr, wpc, wJob, updated, completed, storeVars>>

\* Pool.Start, the worker loop: for job := range p.jobs
Worker_Receive(w) ==
    /\ ~panicked
    /\ wpc[w] = "idle"
    /\ jobs # <<>>
    /\ wJob' = [wJob EXCEPT ![w] = Head(jobs)]
    /\ jobs' = Tail(jobs)
    /\ wpc' = [wpc EXCEPT ![w] = "processing"]
    /\ UNCHANGED <<intentFrame, addVars, updated, completed, storeVars>>

\* the features processJob writes
AnalyzedFeatures == Features(95, 95, 10, 5, 15, 128)

\* Adapter.UpdateTrackFeatures: UPDATE tracks SET <features> WHERE id = ?
UpdateTrackFeatures(tt, trackID, features) ==
    [x \in DOMAIN tt |-> IF x = trackID THEN [tt[x] EXCEPT !.features = features] ELSE tt[x]]

\* Outcomes of p.repo.UpdateTrackFeatures
UpdateTrackFeaturesOutcomes == { NoErr, ErrDB }

\* Pool.processJob
Worker_processJob(w) ==
    /\ ~panicked
    /\ wpc[w] = "processing"
    /\ IF wJob[w].PreviewURL = ""
       THEN UNCHANGED <<updated, storeVars>>
       ELSE \E err \in UpdateTrackFeaturesOutcomes :
            IF err # NoErr
            THEN UNCHANGED <<updated, storeVars>>
            ELSE /\ tracksTable' = UpdateTrackFeatures(tracksTable, wJob[w].TrackID,
                                                       AnalyzedFeatures)
                 /\ updated' = IF wJob[w].TrackID \in DOMAIN tracksTable
                               THEN updated \cup {wJob[w].TrackID} ELSE updated
                 /\ UNCHANGED playlists
    /\ wpc' = [wpc EXCEPT ![w] = "idle"]
    /\ wJob' = [wJob EXCEPT ![w] = NoJob]
    /\ completed' = completed + 1
    /\ UNCHANGED <<intentFrame, addVars, jobs>>

AddStep ==
    \E r \in Adders :
        \/ ATP_GetTrack(r)
        \/ ATP_GetByID(r)
        \/ ATP_AddTrack(r)
        \/ ATP_Save(r)
        \/ ATP_Submit(r)

WorkerStep ==
    \E w \in Workers :
        \/ Worker_Receive(w)
        \/ Worker_processJob(w)


\* ------------------------------------------------------ initial states

Requests ==
    [contentTypeJSON : BOOLEAN, playlistID : {"", "p1"},
     bodyOK : BOOLEAN, message : {"", "m"}]

ValidRequest == [contentTypeJSON |-> TRUE, playlistID |-> "p1",
                 bodyOK |-> TRUE, message |-> "m"]

RowsOf(ids) == [id \in ids |-> CatalogTrack[id]]

\* Contents of the store before the request: no playlist p1, or p1 with
\* some tracks.
StoreChoices ==
    { [playlists |-> <<>>, tracksTable |-> <<>>],
      [playlists |-> [p \in {"p1"} |-> <<>>], tracksTable |-> <<>>],
      [playlists |-> [p \in {"p1"} |-> <<"t1">>], tracksTable |-> RowsOf({"t1"})],
      [playlists |-> [p \in {"p1"} |-> <<"t2", "t3">>], tracksTable |-> RowsOf({"t2", "t3"})] }

\* ------------------------------------------------ the track resolver

\* what no step of Client.GetTrack changes
resolveFrame == <<intentVars, addVars, poolVars, storeVars, filterVars, playlistVars,
                  lookupVars, submitVars, callVars>>

CandidateIDs == {"k1", "k2", "k3", "k4", "k5", "k6", "k7"}

\* The catalog's search results for the targets below: k1 matches artist and
\* title, k2 the title only, k3 and k7 the artist only, k4 to k6 neither.
Candidate ==
    [id \in CandidateIDs |->
        CASE id = "k1" -> SpotifyTrack("k1", <<"c", "d">>, <<<<"a", "b">>>>, "US1")
          [] id = "k2" -> SpotifyTrack("k2", <<"c", "d", " ", "(", "l", "i", "v", "e", ")">>, <<<<"a", "b", "x">>>>, "US2")
          [] id = "k3" -> SpotifyTrack("k3", <<"c", "x">>, <<<<"A", "B">>>>, "")
          [] id = "k4" -> SpotifyTrack("k4", <<>>, <<<<"a", "b", " ", "c", "d">>>>, "US4")
          [] id = "k5" -> SpotifyTrack("k5", <<"c", "x">>, <<<<"a", "x">>>>, "US5")
          [] id = "k6" -> SpotifyTrack("k6", <<"w">>, <<<<"x", "y", "z">>>>, "US6")
          [] OTHER     -> SpotifyTrack("k7", <<"x", "y", "z", "w">>, <<<<" ", "a", "b", " ">>>>, "US7")]

\* the (title, artist) GetTrack is called with
Targets ==
    { [title |-> <<"c", "d">>, artist |-> <<"a", "b">>],
      [title |-> <<"c", "d">>, artist |-> <<" ">>] }

MaxCandidates == 2

\* item lists of a search response: every list of up to MaxCandidates
\* candidates, and three longer ones that reach past the fifth item
ItemLists ==
    { [i \in 1..Len(ids) |-> Candidate[ids[i]]] :
        ids \in SeqsUpTo(CandidateIDs, MaxCandidates)
                  \cup { <<"k6", "k6", "k6", "k6", "k6", "k1">>,
                         <<"k5", "k6", "k5", "k6", "k7", "k1">>,
                         <<"k6", "k5", "k3", "k2", "k1", "k1">> } }

EnvChoices ==
    { EnvUnset, EnvMalformed, EnvNumber(-10), EnvNumber(0), EnvNumber(6),
      EnvNumber(10), EnvNumber(20) }

\* What doRequestWithRetry hands back: an error (transport failure, or a
\* 429/5xx answer on the last attempt), or the response of the catalog.
HTTPError == [kind |-> "err", status |-> 0, decodes |-> FALSE, items |-> <<>>,
              features |-> ZeroFeatures]
HTTPResponse(status, decodes, items, features) ==
    [kind |-> "resp", status |-> status, decodes |-> decodes, items |-> items,
     features |-> features]
NoResponse == [kind |-> "none", status |-> 0, decodes |-> FALSE, items |-> <<>>,
               features |-> ZeroFeatures]

\* Outcomes of the GET /search request
SearchOutcomes ==
    { HTTPError, HTTPResponse(401, TRUE, <<>>, ZeroFeatures),
      HTTPResponse(200, FALSE, <<>>, ZeroFeatures) }
    \cup { HTTPResponse(200, TRUE, items, ZeroFeatures) : items \in ItemLists }

\* spotifyAudioFeatures bodies of a 200 answer
FeatureBodies ==
    { ZeroFeatures,
      Features(70, 30, 40, 20, 50, 120),
      Features(0, 40, 30, 20, 50, 110),
      Features(0, 0, 0, 0, 0, 110) }

\* Outcomes of the GET /audio-features/{id} request
FeaturesOutcomes ==
    { HTTPError, HTTPResponse(200, FALSE, <<>>, ZeroFeatures) }
    \cup { HTTPResponse(s, TRUE, <<>>, ZeroFeatures) : s \in {400, 401, 403, 404} }
    \cup { HTTPResponse(200, TRUE, <<>>, f) : f \in FeatureBodies }

\* ports.NoConfidentMatchError wrapped by fmt.Errorf("spotify adapter: %w")
NoConfidentMatchError(title, artist) ==
    [ctx |-> "spotify adapter", cause |-> "NoConfidentMatch",
     msg |-> "no confident match", Title |-> title, Artist |-> artist]

AdapterError(msg) == Err("spotify adapter", "generic", msg)

\* mapTrackToDomain (mapper.go): features is ZeroFeatures for a nil pointer
mapTrackToDomain(st, features) == Track(st.ID, st.ISRC, "", features)

\* []byte(trackID) for the ids that occur: "k1".."k7" and "t1".."t5"
BytesOf(trackID) ==
    CASE trackID \in {"k1", "k2", "k3", "k4", "k5", "k6", "k7"} ->
            <<107, 48 + (CHOOSE n \in 1..7 : trackID = <<"k1", "k2", "k3", "k4", "k5", "k6", "k7">>[n])>>
      [] trackID \in {"t1", "t2", "t3", "t4", "t5"} ->
            <<116, 48 + (CHOOSE n \in 1..5 : trackID = <<"t1", "t2", "t3", "t4", "t5">>[n])>>
      [] OTHER -> <<>>

\* a ^ b on the low n bits
RECURSIVE Xor(_, _, _)
Xor(a, b, n) ==
    IF n = 0 THEN 0
    ELSE (((a % 2) + (b % 2)) % 2) + 2 * Xor(a \div 2, b \div 2, n - 1)

\* A uint32 is kept as its two 16-bit halves, so that no product leaves the
\* range of the model's integers.
U32(hi, lo) == [hi |-> hi, lo |-> lo]

\* hash/fnv: offset32 = 2166136261 = 0x811C9DC5 = 33052 * 2^16 + 40389,
\* prime32 = 16777619 = 0x01000193 = 256 * 2^16 + 403
FNVOffset32 == U32(33052, 40389)

\* hash ^= uint32(c)
FNVXor(h, c) == U32(h.hi, (h.lo - (h.lo % 256)) + Xor(h.lo % 256, c, 8))

\* hash *= prime32, modulo 2^32
FNVMul(h) ==
    U32(((h.hi * 403) + (h.lo * 256) + ((h.lo * 403) \div 65536)) % 65536,
        (h.lo * 403) % 65536)

\* fnv.New32a, Write, Sum32
RECURSIVE FNV32a(_, _)
FNV32a(h, bytes) ==
    IF bytes = <<>> THEN h ELSE FNV32a(FNVMul(FNVXor(h, Head(bytes))), Tail(bytes))

\* math/rand: seed % int32max for the uint32 h, int32max = 2^31 - 1 (2^31 is
\* 1 modulo 2^31 - 1)
SeedMod(h) == (((((h.hi % 32768) * 65536) + h.lo) % 2147483647) + (h.hi \div 32768)) % 2147483647

\* rand.NewSource(seed): a seed of 0 is replaced
NewSource(h) == IF SeedMod(h) = 0 THEN 89482311 ELSE SeedMod(h)

\* math/rand seedrand: x = 48271 * x mod (2^31 - 1). The library's generator
\* is represented by this recurrence of its own: the next state is a
\* function of the state alone.
NextRand(x) ==
    IF (48271 * (x % 44488)) - (3399 * (x \div 44488)) < 0
    THEN ((48271 * (x % 44488)) - (3399 * (x \div 44488))) + 2147483647
    ELSE (48271 * (x % 44488)) - (3399 * (x \div 44488))

\* between(min, max) for the draw x: min + rng.Float64() * (max - min)
between(min, max, x) == min + (x \div ((2147483647 \div (max - min)) + 1))

\* the six draws of one call, in the order of the struct literal: Energy,
\* Valence, Danceability, Acousticness, Instrumentalness, Tempo
FeaturesOfDraws(d) ==
    Features(between(10, 90, d[1]), between(10, 90, d[2]), between(10, 90, d[4]),
             between(10, 90, d[5]), between(10, 90, d[3]), between(60, 180, d[6]))

\* n successive draws from the generator in state x
RECURSIVE Draws(_, _)
Draws(x, n) == IF n = 0 THEN <<>> ELSE <<NextRand(x)>> \o Draws(NextRand(x), n - 1)

\* rand.New(rand.NewSource(int64(hasher.Sum32()))) for the track id
SourceOf(trackID) == NewSource(FNV32a(FNVOffset32, BytesOf(trackID)))

\* generateDeterministicFeatures
generateDeterministicFeatures(trackID) == FeaturesOfDraws(Draws(SourceOf(trackID), 6))

\* allFeaturesZero
allFeaturesZero(features) ==
    /\ features.danceability = 0
    /\ features.energy = 0
    /\ features.valence = 0
    /\ features.tempo = 0
    /\ features.instrumentalness = 0
    /\ features.acousticness = 0

MaxItems == 5

\* maxItems := len(items), at most 5
maxItemsOf(items) == IF Len(items) > MaxItems THEN MaxItems ELSE Len(items)

\* the test of searchTrack's loop that makes the candidate the new best
ReplacesBest(score, exactArtist, titleMatch) ==
    score >= minConfidence
    /\ (score > bestScore
        \/ (score = bestScore
            /\ ((exactArtist /\ ~bestExactArtist)
                \/ (exactArtist = bestExactArtist /\ titleMatch /\ ~bestTitleMatch))))

matcherLocals == <<minConfidence, gIdx, bestScore, bestIndex, bestExactArtist,
                   bestTitleMatch>>

\* searchTrack: the search request and the decoding of its answer
GT_Search ==
    /\ gpc = "search"
    /\ gRequests' = Append(gRequests, "search")
    /\ \E resp \in SearchOutcomes :
        /\ gSearch' = resp
        /\ IF resp.kind = "err"
           THEN /\ gOut' = [err |-> AdapterError("search request failed"), track |-> NoTrack]
                /\ gpc' = "done"
                /\ UNCHANGED matcherLocals
           ELSE IF resp.status # 200
           THEN /\ gOut' = [err |-> AdapterError("search status"), track |-> NoTrack]
                /\ gpc' = "done"
                /\ UNCHANGED matcherLocals
           ELSE IF ~resp.decodes
           THEN /\ gOut' = [err |-> AdapterError("search decode error"), track |-> NoTrack]
                /\ gpc' = "done"
                /\ UNCHANGED matcherLocals
           ELSE IF Len(resp.items) = 0
           THEN /\ gOut' = [err |-> NoConfidentMatchError(gTitle, gArtist), track |-> NoTrack]
                /\ gpc' = "done"
                /\ UNCHANGED matcherLocals
           ELSE /\ minConfidence' = getMinConfidence(gEnv)
                /\ bestScore' = 0
                /\ bestIndex' = -1
                /\ bestExactArtist' = FALSE
                /\ bestTitleMatch' = FALSE
                /\ gIdx' = 0
                /\ gpc' = "loop"
                /\ UNCHANGED gOut
    /\ UNCHANGED <<resolveFrame, gTitle, gArtist, gEnv, gTrack, gFeatures>>

\* the body of the loop once the candidate is scored
KeepBest(score, exactArtist, titleMatch) ==
    IF ReplacesBest(score, exactArtist, titleMatch)
    THEN /\ bestScore' = score
         /\ bestIndex' = gIdx
         /\ bestExactArtist' = exactArtist
         /\ bestTitleMatch' = titleMatch
    ELSE UNCHANGED <<bestScore, bestIndex, bestExactArtist, bestTitleMatch>>

\* searchTrack: one iteration of the loop over the first maxItems items
GT_Candidate ==
    /\ gpc = "loop"
    /\ gIdx < maxItemsOf(gSearch.items)
    /\ KeepBest(FinalScore(gSearch.items[gIdx + 1], gTitle, gArtist),
                artistExactMatch(gSearch.items[gIdx + 1], gArtist),
                titleSubstringMatch(gSearch.items[gIdx + 1].Name, gTitle))
    /\ gIdx' = gIdx + 1
    /\ UNCHANGED <<resolveFrame, gpc, gTitle, gArtist, gEnv, gSearch, minConfidence,
                   gTrack, gRequests, gFeatures, gOut>>

\* searchTrack: after the loop
GT_Pick ==
    /\ gpc = "loop"
    /\ gIdx >= maxItemsOf(gSearch.items)
    /\ IF bestIndex = -1
       THEN /\ gOut' = [err |-> NoConfidentMatchError(gTitle, gArtist), track |-> NoTrack]
            /\ gpc' = "done"
            /\ UNCHANGED gTrack
       ELSE /\ gTrack' = gSearch.items[bestIndex + 1]
            /\ gpc' = "features"
            /\ UNCHANGED gOut
    /\ UNCHANGED <<resolveFrame, gTitle, gArtist, gEnv, gSearch, matcherLocals,
                   gRequests, gFeatures>>

\* A lookup that substitutes the deterministic features on every status
\* other than 200.
FeaturesResultAnyStatus(track, resp) ==
    IF resp.kind = "err"
    THEN [err |-> AdapterError("features request failed"), track |-> NoTrack]
    ELSE IF resp.status # 200
    THEN [err |-> NoErr,
          track |-> mapTrackToDomain(track, generateDeterministicFeatures(track.ID))]
    ELSE IF ~resp.decodes
    THEN [err |-> AdapterError("features decode error"), track |-> NoTrack]
    ELSE IF allFeaturesZero(resp.features)
    THEN [err |-> NoErr,
          track |-> mapTrackToDomain(track, generateDeterministicFeatures(track.ID))]
    ELSE [err |-> NoErr, track |-> mapTrackToDomain(track, resp.features)]

\* GetTrack after the features request: what it returns for an answer
FeaturesResult(track, resp) ==
    IF resp.kind = "err"
    THEN [err |-> AdapterError("features request failed"), track |-> NoTrack]
    ELSE IF resp.status # 200
    THEN IF resp.status = 403 \/ resp.status = 404
         THEN [err |-> NoErr,
               track |-> mapTrackToDomain(track, generateDeterministicFeatures(track.ID))]
         ELSE [err |-> AdapterError("features status"), track |-> NoTrack]
    ELSE IF ~resp.decodes
    THEN [err |-> AdapterError("features decode error"), track |-> NoTrack]
    ELSE IF allFeaturesZero(resp.features)
    THEN [err |-> NoErr,
          track |-> mapTrackToDomain(track, generateDeterministicFeatures(track.ID))]
    ELSE [err |-> NoErr, track |-> mapTrackToDomain(track, resp.features)]

\* GetTrack: the features request for the matched track
GT_Features ==
    /\ gpc = "features"
    /\ gRequests' = Append(gRequests, "audio-features")
    /\ \E resp \in FeaturesOutcomes :
        /\ gFeatures' = resp
        /\ gOut' = FeaturesResult(gTrack, resp)
    /\ gpc' = "done"
    /\ UNCHANGED <<resolveFrame, gTitle, gArtist, gEnv, gSearch, matcherLocals, gTrack>>

\* no track is being resolved
ResolveIdle ==
    /\ gpc = "off"
    /\ gTitle = <<>>
    /\ gArtist = <<>>
    /\ gEnv = EnvUnset
    /\ gSearch = NoResponse
    /\ minConfidence = 0
    /\ gIdx = 0
    /\ bestScore = 0
    /\ bestIndex = -1
    /\ bestExactArtist = FALSE
    /\ bestTitleMatch = FALSE
    /\ gTrack = NoSpotifyTrack
    /\ gRequests = <<>>
    /\ gFeatures = NoResponse
    /\ gOut = [err |-> NoErr, track |-> NoTrack]


\* matchesConstraints is not being called on its own
FilterIdle ==
    /\ mcpc = "off"
    /\ mcFeatures = ZeroFeatures
    /\ mcConstraints = EmptyIntent
    /\ mcResult = FALSE

\* no playlist value is being used on its own
PlaylistIdle ==
    /\ plpc = "off"
    /\ plTracks = <<>>
    /\ plArg = NoTrack
    /\ plErr = NoErr
    /\ plCalls = 0

NoPlaylist == [ID |-> "", Tracks |-> <<>>]

\* the response body: an error text, a playlist or the features
Body(text, pl, f) == [error |-> text, playlist |-> pl, features |-> f]
NoBody == Body(<<>>, NoPlaylist, ZeroFeatures)

\* no playlist lookup request
LookupIdle ==
    /\ lpc = "off"
    /\ lOp = ""
    /\ lID = ""
    /\ lPlaylists = <<>>
    /\ lDBFails = "no"
    /\ lErr = NoErr
    /\ lStatus = 0
    /\ lBody = NoBody

\* main's pool: NewPool(repo, workers, QueueSize), nothing submitted directly
SubmitIdle ==
    /\ queueSize = QueueSize
    /\ sCalls = 0
    /\ dropLog = <<>>
    /\ closed = FALSE
    /\ stpc = "none"
    /\ panicked = FALSE

Callers == {"c1", "c2"}

\* the rand.Rand a caller draws from: the one its own call created
rngOfShared(c) == "c1"
rngOf(c) == c

GenIdle ==
    /\ dpc = [c \in Callers |-> "idle"]
    /\ dID = [c \in Callers |-> ""]
    /\ dRng = [c \in Callers |-> 0]
    /\ dDrawn = [c \in Callers |-> <<>>]
    /\ dReturned = <<>>

NormFns == {"Normalize", "normalizeSearchInput"}

NormIdle ==
    /\ npc = "off"
    /\ nIn = <<>>
    /\ nOnce = [fn \in NormFns |-> <<>>]
    /\ nTwice = [fn \in NormFns |-> <<>>]

RetryIdle ==
    /\ rpc = "off"
    /\ cMaxRetries = 0
    /\ rStatuses = <<>>
    /\ rCtxDone = FALSE
    /\ rMaxRetries = 0
    /\ rAttempt = 0
    /\ rDone = 0
    /\ rResp = 0
    /\ rErr = ""

CallIdle ==
    /\ GenIdle
    /\ NormIdle
    /\ RetryIdle

UnitIdle ==
    /\ FilterIdle
    /\ ResolveIdle
    /\ PlaylistIdle
    /\ LookupIdle
    /\ CallIdle
    /\ SubmitIdle

\* no add-track request is running
AddIdle ==
    /\ apc = [r \in Adders |-> "off"]
    /\ aTrack = [r \in Adders |-> NoTrack]
    /\ aPl = [r \in Adders |-> <<>>]
    /\ aErr = [r \in Adders |-> NoErr]

\* the pool right after Start: empty queue, idle workers
PoolIdle ==
    /\ jobs = <<>>
    /\ wpc = Start(1)
    /\ wJob = [w \in Workers |-> NoJob]
    /\ updated = {}
    /\ completed = 0

IntentInit ==
    /\ entry \in {"http", "direct"}
    /\ req \in IF entry = "http" THEN Requests ELSE { ValidRequest }
    /\ compilerConfigured \in BOOLEAN
    /\ clientConnected = TRUE
    /\ hpc = IF entry = "http" THEN "start" ELSE "none"
    /\ httpStatus = 0
    /\ httpBody = ""
    /\ stream = <<>>
    /\ resultCh = <<>>
    /\ tpc = "idle"
    /\ intent = EmptyIntent
    /\ existingTracks = {}
    /\ artistIdx = 1
    /\ seenTracks = {}
    /\ allTracks = <<>>
    /\ matchingTracks = <<>>
    /\ result = NoResult
    /\ calls = <<>>
    /\ AddIdle
    /\ PoolIdle
    /\ UnitIdle
    /\ \E st \in StoreChoices :
        /\ playlists = st.playlists
        /\ tracksTable = st.tracksTable

Init == IntentInit

Next ==
    \/ HandlerStep
    \/ ClientDisconnect
    \/ DirectCall
    \/ TaskStep

Spec == Init /\ [][Next]_vars

\* Two add-track requests on playlist p1 running concurrently with each
\* other and with the worker pool; no intent request.
StoreInit ==
    /\ entry = "none"
    /\ req = ValidRequest
    /\ compilerConfigured = TRUE
    /\ clientConnected = TRUE
    /\ hpc = "none"
    /\ httpStatus = 0
    /\ httpBody = ""
    /\ stream = <<>>
    /\ resultCh = <<>>
    /\ tpc = "idle"
    /\ intent = EmptyIntent
    /\ existingTracks = {}
    /\ artistIdx = 1
    /\ seenTracks = {}
    /\ allTracks = <<>>
    /\ matchingTracks = <<>>
    /\ result = NoResult
    /\ calls = <<>>
    /\ apc = [r \in Adders |-> "resolve"]
    /\ aTrack = [r \in Adders |-> NoTrack]
    /\ aPl = [r \in Adders |-> <<>>]
    /\ aErr = [r \in Adders |-> NoErr]
    /\ wpc = Start(1)
    /\ wJob = [w \in Workers |-> NoJob]
    /\ updated = {}
    /\ completed = 0
    /\ UnitIdle
    /\ \E st \in StoreChoices :
        /\ playlists = st.playlists
        /\ tracksTable = st.tracksTable
        \* the job of an earlier add may still be queued
        /\ jobs \in {<<>>} \cup { <<[TrackID |-> id, PreviewURL |-> st.tracksTable[id].previewURL]>> :
                                    id \in DOMAIN st.tracksTable }

StoreNext ==
    \/ AddStep
    \/ WorkerStep

StoreSpec == StoreInit /\ [][StoreNext]_vars

\* No intent request: the intent path at rest.
IntentDormant ==
    /\ entry = "none"
    /\ req = ValidRequest
    /\ compilerConfigured = TRUE
    /\ clientConnected = TRUE
    /\ hpc = "none"
    /\ httpStatus = 0
    /\ httpBody = ""
    /\ stream = <<>>
    /\ resultCh = <<>>
    /\ tpc = "idle"
    /\ intent = EmptyIntent
    /\ existingTracks = {}
    /\ artistIdx = 1
    /\ seenTracks = {}
    /\ allTracks = <<>>
    /\ matchingTracks = <<>>
    /\ result = NoResult
    /\ calls = <<>>

\* The store before anything was written.
StoreEmpty ==
    /\ playlists = <<>>
    /\ tracksTable = <<>>

\* ---------------------------------------- matchesConstraints on its own

\* what a call of matchesConstraints leaves alone
filterFrame == <<intentVars, addVars, poolVars, storeVars, resolveVars, playlistVars,
                 lookupVars, submitVars, callVars>>

FeatureValues == {0, 30, 50, 90, 95}

\* domain.AudioFeatures of the track under test
FeatureChoices ==
    { Features(e, v, a, i, 40, 100) :
        e \in FeatureValues, v \in {0, 50}, a \in {50, 100}, i \in {0, 90} }

ConstraintChoices ==
    { NilConstraint, Constraint(0, 0), Constraint(50, 90), Constraint(70, 0),
      Constraint(0, 50) }

\* IntentObjects whose four constraints are set independently
ConstraintSets ==
    { [EmptyIntent EXCEPT !.VibeConstraints = VibeConstraints(e, v, a, i)] :
        e \in ConstraintChoices, v \in ConstraintChoices,
        a \in ConstraintChoices, i \in ConstraintChoices }

\* result := matchesConstraints(features, constraints)
MC_Call ==
    /\ mcpc = "call"
    /\ mcResult' = matchesConstraints(mcFeatures, mcConstraints)
    /\ mcpc' = "done"
    /\ UNCHANGED <<filterFrame, mcFeatures, mcConstraints>>

FilterInit ==
    /\ IntentDormant
    /\ AddIdle
    /\ PoolIdle
    /\ StoreEmpty
    /\ ResolveIdle
    /\ PlaylistIdle
    /\ LookupIdle
    /\ CallIdle
    /\ SubmitIdle
    /\ mcpc = "call"
    /\ mcFeatures \in FeatureChoices
    /\ mcConstraints \in ConstraintSets
    /\ mcResult = FALSE

FilterNext == MC_Call

FilterSpec == FilterInit /\ [][FilterNext]_vars

\* GetTrack(ctx, title, artist) is called
ResolveInit ==
    /\ IntentDormant
    /\ AddIdle
    /\ PoolIdle
    /\ StoreEmpty
    /\ FilterIdle
    /\ PlaylistIdle
    /\ LookupIdle
    /\ CallIdle
    /\ SubmitIdle
    /\ gpc = "search"
    /\ \E t \in Targets : gTitle = t.title /\ gArtist = t.artist
    /\ gEnv \in EnvChoices
    /\ gSearch = NoResponse
    /\ minConfidence = 0
    /\ gIdx = 0
    /\ bestScore = 0
    /\ bestIndex = -1
    /\ bestExactArtist = FALSE
    /\ bestTitleMatch = FALSE
    /\ gTrack = NoSpotifyTrack
    /\ gRequests = <<>>
    /\ gFeatures = NoResponse
    /\ gOut = [err |-> NoErr, track |-> NoTrack]

ResolveNext ==
    \/ GT_Search
    \/ GT_Candidate
    \/ GT_Pick
    \/ GT_Features

ResolveSpec == ResolveInit /\ [][ResolveNext]_vars

\* ------------------------------------------ a domain.Playlist on its own

playlistFrame == <<intentVars, addVars, poolVars, storeVars, filterVars, resolveVars,
                   lookupVars, submitVars, callVars>>

MaxAdds == 4

\* err := p.AddTrack(t), for any track of the catalog
PL_AddTrack ==
    /\ plpc = "open"
    /\ plCalls < MaxAdds
    /\ \E id \in TrackIDs :
        LET res == AddTrack(plTracks, CatalogTrack[id]) IN
        /\ plArg' = CatalogTrack[id]
        /\ plErr' = res.err
        /\ plTracks' = res.tracks
    /\ plCalls' = plCalls + 1
    /\ UNCHANGED <<playlistFrame, plpc>>

\* NewPlaylist: a playlist with no track
PlaylistInit ==
    /\ IntentDormant
    /\ AddIdle
    /\ PoolIdle
    /\ StoreEmpty
    /\ FilterIdle
    /\ ResolveIdle
    /\ LookupIdle
    /\ CallIdle
    /\ SubmitIdle
    /\ plpc = "open"
    /\ plTracks = <<>>
    /\ plArg = NoTrack
    /\ plErr = NoErr
    /\ plCalls = 0

PlaylistNext == PL_AddTrack

PlaylistSpec == PlaylistInit /\ [][PlaylistNext]_vars

\* ------------------------------------------ the playlist lookup handlers

\* what a lookup request leaves alone
lookupFrame == <<intentVars, addVars, poolVars, storeVars, filterVars, resolveVars,
                 playlistVars, submitVars, callVars>>

\* r.PathValue("id"): none, a stored playlist or an unknown one
LookupIDs == {"", "p1", "p2", "p9"}

StoredLists == { <<>>, <<"t1">>, <<"t1", "t2">> }

\* the stores: p1 and p2 each missing or linked to one of the lists
LookupStores == UNION { [D -> StoredLists] : D \in SUBSET {"p1", "p2"} }

ErrEmptyID == Err("", "generic", "service: playlist id cannot be empty")

\* err.Error(): the outermost context and the innermost text
ErrorText(e) == <<e.ctx, e.msg>>

\* errors.Is(err, target)
ErrorsIs(e, target) == e.cause = target.cause

\* what a store or service call returns
Returned(err, pl, f) == [err |-> err, playlist |-> pl, features |-> f]

\* Adapter.GetByID: sql.ErrNoRows becomes domain.ErrNotFound, any other
\* failure of a query a wrapped error
Adapter_GetByID(id) ==
    IF lDBFails = "lookup"
    THEN Returned(Wrap("failed to load playlist", ErrDB), NoPlaylist, ZeroFeatures)
    ELSE IF id \notin DOMAIN lPlaylists
    THEN Returned(ErrNotFound, NoPlaylist, ZeroFeatures)
    ELSE IF lDBFails = "rows"
    THEN Returned(Wrap("failed to load playlist tracks", ErrDB), NoPlaylist, ZeroFeatures)
    ELSE Returned(NoErr,
                  [ID |-> id,
                   Tracks |-> [i \in 1..Len(lPlaylists[id]) |-> CatalogTrack[lPlaylists[id][i]]]],
                  ZeroFeatures)

RECURSIVE SumOf(_, _)
SumOf(field, ids) ==
    IF ids = <<>> THEN 0 ELSE CatalogTrack[Head(ids)].features[field] + SumOf(field, Tail(ids))

\* COALESCE(AVG(t.<field>), 0) over the linked tracks; the stored lists have
\* averages that are whole hundredths
Average(field, ids) == IF ids = <<>> THEN 0 ELSE SumOf(field, ids) \div Len(ids)

\* Adapter.GetPlaylistAudioFeatures
Adapter_GetPlaylistAudioFeatures(id) ==
    IF lDBFails = "lookup"
    THEN Returned(Wrap("failed to load playlist", ErrDB), NoPlaylist, ZeroFeatures)
    ELSE IF id \notin DOMAIN lPlaylists
    THEN Returned(ErrNotFound, NoPlaylist, ZeroFeatures)
    ELSE IF lDBFails = "rows"
    THEN Returned(Wrap("failed to load playlist audio features", ErrDB), NoPlaylist,
                  ZeroFeatures)
    ELSE Returned(NoErr, NoPlaylist,
                  [f \in DOMAIN ZeroFeatures |-> Average(f, lPlaylists[id])])

\* Orchestrator.GetPlaylist
Orchestrator_GetPlaylist(playlistID) ==
    IF playlistID = ""
    THEN Returned(ErrEmptyID, NoPlaylist, ZeroFeatures)
    ELSE LET r == Adapter_GetByID(playlistID)
         IN  IF r.err # NoErr
             THEN Returned(Wrap("service: failed to load playlist", r.err), NoPlaylist,
                           ZeroFeatures)
             ELSE r

\* Orchestrator.GetPlaylistAnalysis
Orchestrator_GetPlaylistAnalysis(id) ==
    LET r == Adapter_GetPlaylistAudioFeatures(id)
    IN  IF r.err # NoErr
        THEN IF ErrorsIs(r.err, ErrNotFound)
             THEN Returned(r.err, NoPlaylist, ZeroFeatures)
             ELSE Returned(Wrap("service: failed to load playlist analysis", r.err),
                           NoPlaylist, ZeroFeatures)
        ELSE r

\* Handler.GetPlaylist, GET /playlists/{id}
Handler_GetPlaylist ==
    /\ lpc = "start"
    /\ LET r == Orchestrator_GetPlaylist(lID)
       IN  /\ lErr' = r.err
           /\ IF r.err # NoErr
              THEN /\ lStatus' = IF ErrorText(r.err) = ErrorText(ErrEmptyID) THEN 400 ELSE 500
                   /\ lBody' = Body(ErrorText(r.err), NoPlaylist, ZeroFeatures)
              ELSE /\ lStatus' = 200
                   /\ lBody' = Body(<<>>, r.playlist, ZeroFeatures)
    /\ lOp' = "GetPlaylist"
    /\ lpc' = "done"
    /\ UNCHANGED <<lookupFrame, lID, lPlaylists, lDBFails>>

\* Handler.GetPlaylistAnalysis, GET /playlists/{id}/analysis
Handler_GetPlaylistAnalysis ==
    /\ lpc = "start"
    /\ IF lID = ""
       THEN /\ lErr' = NoErr
            /\ lStatus' = 400
            /\ lBody' = Body(<<"", "playlist id is required">>, NoPlaylist, ZeroFeatures)
       ELSE LET r == Orchestrator_GetPlaylistAnalysis(lID)
            IN  /\ lErr' = r.err
                /\ IF r.err # NoErr
                   THEN /\ lStatus' = 500
                        /\ lBody' = Body(ErrorText(r.err), NoPlaylist, ZeroFeatures)
                   ELSE /\ lStatus' = 200
                        /\ lBody' = Body(<<>>, NoPlaylist, r.features)
    /\ lOp' = "GetPlaylistAnalysis"
    /\ lpc' = "done"
    /\ UNCHANGED <<lookupFrame, lID, lPlaylists, lDBFails>>

\* One lookup request on any store, served by either handler.
LookupInit ==
    /\ IntentDormant
    /\ AddIdle
    /\ PoolIdle
    /\ StoreEmpty
    /\ FilterIdle
    /\ ResolveIdle
    /\ PlaylistIdle
    /\ SubmitIdle
    /\ CallIdle
    /\ lpc = "start"
    /\ lOp = ""
    /\ lID \in LookupIDs
    /\ lPlaylists \in LookupStores
    /\ lDBFails \in {"no", "lookup", "rows"}
    /\ lErr = NoErr
    /\ lStatus = 0
    /\ lBody = NoBody

LookupNext ==
    \/ Handler_GetPlaylist
    \/ Handler_GetPlaylistAnalysis

LookupSpec == LookupInit /\ [][LookupNext]_vars

\* ------------------------------------------ the pool under direct submits

MaxSubmits == 4

\* the jobs submitted: with and without a preview URL
JobChoices ==
    { [TrackID |-> id, PreviewURL |-> CatalogTrack[id].previewURL] : id \in {"t1", "t2", "t3"} }

\* p.Submit(job), from any goroutine: the select sends when the channel has
\* room and otherwise takes the default branch, which logs the drop
\* A send on a closed channel panics, inside a select as well.
Pool_Submit ==
    /\ ~panicked
    /\ sCalls < MaxSubmits
    /\ \E job \in JobChoices :
        IF closed
        THEN /\ panicked' = TRUE
             /\ UNCHANGED <<jobs, dropLog>>
        ELSE /\ jobs' = Submit(jobs, job)
             /\ dropLog' = IF Submit(jobs, job) = jobs THEN Append(dropLog, job.TrackID)
                                                      ELSE dropLog
             /\ UNCHANGED panicked
    /\ sCalls' = sCalls + 1
    /\ UNCHANGED <<intentVars, addVars, wpc, wJob, updated, completed, storeVars, filterVars,
                   resolveVars, playlistVars, lookupVars, queueSize, closed, stpc,
                          callVars>>

\* A pool of any queue size right after Start, its submitters and its
\* workers; no request is running.
PoolInit ==
    /\ IntentDormant
    /\ AddIdle
    /\ PoolIdle
    /\ FilterIdle
    /\ ResolveIdle
    /\ PlaylistIdle
    /\ LookupIdle
    /\ CallIdle
    /\ \E st \in StoreChoices :
        /\ playlists = st.playlists
        /\ tracksTable = st.tracksTable
    /\ queueSize \in 0..QueueSize
    /\ sCalls = 0
    /\ dropLog = <<>>
    /\ closed = FALSE
    /\ stpc = "none"
    /\ panicked = FALSE

PoolNext ==
    \/ Pool_Submit
    \/ WorkerStep

PoolSpec == PoolInit /\ [][PoolNext]_vars

\* ------------------------------------------------- the pool's shutdown

\* what Stop leaves alone
stopFrame == <<intentVars, addVars, poolVars, storeVars, filterVars, resolveVars,
               playlistVars, lookupVars, queueSize, sCalls, dropLog, panicked,
               callVars>>

\* for job := range p.jobs ends: the channel is closed and drained
CanExit(w) == wpc[w] = "idle" /\ closed /\ jobs = <<>>

\* The worker goroutine returns; the deferred p.wg.Done() runs.
Worker_Exit(w) ==
    /\ ~panicked
    /\ CanExit(w)
    /\ wpc' = [wpc EXCEPT ![w] = "exited"]
    /\ UNCHANGED <<intentFrame, addVars, jobs, wJob, updated, completed, storeVars>>

\* Pool.Stop: close(p.jobs)
Pool_Stop ==
    /\ ~panicked
    /\ stpc = "none"
    /\ closed' = TRUE
    /\ stpc' = "waiting"
    /\ UNCHANGED stopFrame

\* Pool.Stop: p.wg.Wait() returns once every started worker has called Done
Pool_StopReturn ==
    /\ ~panicked
    /\ stpc = "waiting"
    /\ \A w \in Workers : wpc[w] \in {"unstarted", "exited"}
    /\ stpc' = "returned"
    /\ UNCHANGED <<stopFrame, closed>>

\* A pool of any number of workers after Start; Submit and Stop are called in
\* any order.
ShutdownInit ==
    /\ IntentDormant
    /\ AddIdle
    /\ FilterIdle
    /\ ResolveIdle
    /\ PlaylistIdle
    /\ LookupIdle
    /\ CallIdle
    /\ jobs = <<>>
    /\ wpc \in { Start(n) : n \in 0..Cardinality(Workers) }
    /\ wJob = [w \in Workers |-> NoJob]
    /\ updated = {}
    /\ completed = 0
    /\ \E st \in StoreChoices :
        /\ playlists = st.playlists
        /\ tracksTable = st.tracksTable
    /\ queueSize \in 1..QueueSize
    /\ sCalls = 0
    /\ dropLog = <<>>
    /\ closed = FALSE
    /\ stpc = "none"
    /\ panicked = FALSE

WorkerRun(w) ==
    \/ Worker_Receive(w)
    \/ Worker_processJob(w)
    \/ Worker_Exit(w)

ShutdownNext ==
    \/ Pool_Submit
    \/ \E w \in Workers : WorkerRun(w)
    \/ Pool_Stop
    \/ Pool_StopReturn

ShutdownSpec == ShutdownInit /\ [][ShutdownNext]_vars

\* Every worker goroutine is scheduled and processJob returns; wg.Wait
\* returns when it can.
FairShutdownSpec ==
    ShutdownSpec /\ (\A w \in Workers : WF_vars(WorkerRun(w))) /\ WF_vars(Pool_StopReturn)

\* The goroutine is scheduled and every collaborator call returns; the
\* handler goroutine runs as long as it has something to do.
FairSpec == Spec /\ WF_vars(TaskStep) /\ WF_vars(HandlerStep) /\ WF_vars(DirectCall)

\* ------------------------------------------ the fallback feature generator
\* generateDeterministicFeatures called by concurrent callers, one step per
\* use of the generator.
restVars == <<intentVars, addVars, poolVars, storeVars, filterVars, resolveVars,
              playlistVars, lookupVars, submitVars>>

RestIdle ==
    /\ IntentDormant
    /\ AddIdle
    /\ PoolIdle
    /\ StoreEmpty
    /\ FilterIdle
    /\ ResolveIdle
    /\ PlaylistIdle
    /\ SubmitIdle
    /\ LookupIdle

MaxGenCalls == 3
GenIDs == {"k1", "k2"}

GenStarted == Len(dReturned) + Cardinality({c \in Callers : dpc[c] = "draw"})

\* hasher.Write, rand.New(rand.NewSource(seed))
DF_Seed(c) ==
    /\ dpc[c] = "idle"
    /\ GenStarted < MaxGenCalls
    /\ \E trackID \in GenIDs :
        /\ dID' = [dID EXCEPT ![c] = trackID]
        /\ dRng' = [dRng EXCEPT ![rngOf(c)] = SourceOf(trackID)]
    /\ dDrawn' = [dDrawn EXCEPT ![c] = <<>>]
    /\ dpc' = [dpc EXCEPT ![c] = "draw"]
    /\ UNCHANGED <<restVars, normVars, retryVars, dReturned>>

\* one rng.Float64() of between
DF_Draw(c) ==
    /\ dpc[c] = "draw"
    /\ Len(dDrawn[c]) < 6
    /\ dRng' = [dRng EXCEPT ![rngOf(c)] = NextRand(dRng[rngOf(c)])]
    /\ dDrawn' = [dDrawn EXCEPT ![c] = Append(dDrawn[c], NextRand(dRng[rngOf(c)]))]
    /\ UNCHANGED <<restVars, normVars, retryVars, dpc, dID, dReturned>>

\* return domain.AudioFeatures{...}
DF_Return(c) ==
    /\ dpc[c] = "draw"
    /\ Len(dDrawn[c]) = 6
    /\ dReturned' = Append(dReturned, [caller |-> c, trackID |-> dID[c],
                                       features |-> FeaturesOfDraws(dDrawn[c])])
    /\ dpc' = [dpc EXCEPT ![c] = "idle"]
    /\ dID' = [dID EXCEPT ![c] = ""]
    /\ dDrawn' = [dDrawn EXCEPT ![c] = <<>>]
    /\ UNCHANGED <<restVars, normVars, retryVars, dRng>>

GenInit ==
    /\ RestIdle
    /\ GenIdle
    /\ NormIdle
    /\ RetryIdle

GenNext ==
    \E c \in Callers :
        \/ DF_Seed(c)
        \/ DF_Draw(c)
        \/ DF_Return(c)

GenSpec == GenInit /\ [][GenNext]_vars

\* ------------------------------------------------ the two normalisations
\* Normalize and normalizeSearchInput applied to an input and then to their
\* own result.
MaxPieces == 4

\* the input strings: up to MaxPieces pieces in a row
Pieces ==
    { <<"a">>, <<"B">>, <<"1">>, <<" ">>, <<"(">>, <<")">>, <<"[">>, <<"]">>, <<"-">>,
      <<" ", "-", " ">>, <<"l", "i", "v", "e">> }

RECURSIVE Concat(_)
Concat(parts) == IF parts = <<>> THEN <<>> ELSE Head(parts) \o Concat(Tail(parts))

NormInputs == { Concat(parts) : parts \in SeqsUpTo(Pieces, MaxPieces) }

ApplyNorm(fn, input) ==
    IF fn = "Normalize" THEN Normalize(input) ELSE normalizeSearchInput(input)

Norm_Call ==
    /\ npc = "in"
    /\ nOnce' = [fn \in NormFns |-> ApplyNorm(fn, nIn)]
    /\ npc' = "once"
    /\ UNCHANGED <<restVars, genVars, retryVars, nIn, nTwice>>

Norm_CallAgain ==
    /\ npc = "once"
    /\ nTwice' = [fn \in NormFns |-> ApplyNorm(fn, nOnce[fn])]
    /\ npc' = "twice"
    /\ UNCHANGED <<restVars, genVars, retryVars, nIn, nOnce>>

NormInit ==
    /\ RestIdle
    /\ GenIdle
    /\ RetryIdle
    /\ npc = "in"
    /\ nIn \in NormInputs
    /\ nOnce = [fn \in NormFns |-> <<>>]
    /\ nTwice = [fn \in NormFns |-> <<>>]

NormNext ==
    \/ Norm_Call
    \/ Norm_CallAgain

NormSpec == NormInit /\ [][NormNext]_vars

\* ------------------------------------------------- requests with retries
\* Client.doRequestWithRetry against a server that answers by a script; the
\* request has no body.
MaxRetries == 3
MaxStatuses == 3
defaultMaxRetries == 3

\* the outcomes of c.httpClient.Do: a transport error (0) or a response
\* with this status
DoOutcomes == {0, 200, 404, 429, 503}

Scripts == SeqsUpTo(DoOutcomes, MaxStatuses) \ {<<>>}

\* what the k-th call of Do yields
OutcomeAt(statuses, k) == IF k <= Len(statuses) THEN statuses[k] ELSE statuses[Len(statuses)]

\* shouldRetry that retries on server errors only
shouldRetryServerErrors(outcome) == outcome = 0 \/ outcome >= 500

\* shouldRetry (its bool): err != nil, 429 or a status >= 500
shouldRetry(outcome) == outcome = 0 \/ outcome = 429 \/ outcome >= 500

retryFrame == <<restVars, genVars, normVars, cMaxRetries, rStatuses>>

\* maxRetries := c.maxRetries, the default when it is not positive
Retry_Begin ==
    /\ rpc = "start"
    /\ rMaxRetries' = IF cMaxRetries <= 0 THEN defaultMaxRetries ELSE cMaxRetries
    /\ rAttempt' = 0
    /\ rpc' = "loop"
    /\ UNCHANGED <<retryFrame, rCtxDone, rDone, rResp, rErr>>

\* one pass of the loop up to the backoff
Retry_Attempt ==
    /\ rpc = "loop"
    /\ IF rAttempt >= rMaxRetries
       THEN /\ rpc' = "done"
            /\ rResp' = 0
            /\ rErr' = "failed"
            /\ UNCHANGED rDone
       ELSE IF rCtxDone
       THEN /\ rpc' = "done"
            /\ rResp' = 0
            /\ rErr' = "canceled"
            /\ UNCHANGED rDone
       ELSE /\ rDone' = rDone + 1
            /\ IF ~shouldRetry(OutcomeAt(rStatuses, rDone + 1))
               THEN /\ rpc' = "done"
                    /\ rResp' = OutcomeAt(rStatuses, rDone + 1)
                    /\ rErr' = ""
               ELSE IF rAttempt = rMaxRetries - 1
               THEN /\ rpc' = "done"
                    /\ rResp' = 0
                    /\ rErr' = "failed"
               ELSE /\ rpc' = "sleep"
                    /\ UNCHANGED <<rResp, rErr>>
    /\ UNCHANGED <<retryFrame, rCtxDone, rMaxRetries, rAttempt>>

\* sleepWithContext: the timer fires
Retry_Slept ==
    /\ rpc = "sleep"
    /\ rAttempt' = rAttempt + 1
    /\ rpc' = "loop"
    /\ UNCHANGED <<retryFrame, rCtxDone, rMaxRetries, rDone, rResp, rErr>>

\* sleepWithContext: <-ctx.Done()
Retry_SleepCanceled ==
    /\ rpc = "sleep"
    /\ rCtxDone
    /\ rpc' = "done"
    /\ rResp' = 0
    /\ rErr' = "canceled"
    /\ UNCHANGED <<retryFrame, rCtxDone, rMaxRetries, rAttempt, rDone>>

\* the caller cancels the request's context
Retry_Cancel ==
    /\ rpc \in {"start", "loop", "sleep"}
    /\ ~rCtxDone
    /\ rCtxDone' = TRUE
    /\ UNCHANGED <<retryFrame, rpc, rMaxRetries, rAttempt, rDone, rResp, rErr>>

RetryInit ==
    /\ RestIdle
    /\ GenIdle
    /\ NormIdle
    /\ rpc = "start"
    /\ cMaxRetries \in 0..MaxRetries
    /\ rStatuses \in Scripts
    /\ rCtxDone = FALSE
    /\ rMaxRetries = 0
    /\ rAttempt = 0
    /\ rDone = 0
    /\ rResp = 0
    /\ rErr = ""

RetryNext ==
    \/ Retry_Begin
    \/ Retry_Attempt
    \/ Retry_Slept
    \/ Retry_SleepCanceled
    \/ Retry_Cancel

RetrySpec == RetryInit /\ [][RetryNext]_vars

\* ------------------------------------------------- claims on the intent path

CallIdx(op) == { i \in 1..Len(calls) : calls[i].op = op }
FetchCalls == SelectSeq(calls, LAMBDA c : c.op = "GetArtistTopTracks")
PipelineEnded == tpc \in {"return", "done"}
Terminal(e) == e.status \in {"complete", "error"}
LoadSucceeded == \E i \in CallIdx("GetByID") : calls[i].err = NoErr
AnalyzeFailed == \E i \in CallIdx("AnalyzeIntent") : calls[i].err # NoErr

\* C1: once ProcessIntent has been launched, a client disconnect never
\* cancels it: no collaborator call of the pipeline ever returns a
\* cancellation error, the pipeline always reaches its end, and when a track
\* survived filtering the batch-add has been invoked with the surviving
\* tracks and was not cancelled.
C1_DisconnectDoesNotCancel ==
    /\ [](\A i \in 1..Len(calls) : calls[i].err.cause # "canceled")
    /\ []((PipelineEnded /\ Len(matchingTracks) > 0) =>
            \E i \in CallIdx("AddTracksToPlaylist") :
                /\ calls[i].tracks = matchingTracks
                /\ calls[i].err.cause # "canceled")
    /\ ((tpc # "idle") ~> (tpc = "done"))

\* The client left, the handler returned without reading the result, and
\* the pipeline still persisted its batch and delivered its result.
C1_Witness ==
    /\ entry = "http"
    /\ ~clientConnected
    /\ hpc = "done"
    /\ tpc = "done"
    /\ resultCh # <<>>
    /\ \E i \in CallIdx("AddTracksToPlaylist") : calls[i].err = NoErr

StreamShape ==
    /\ hpc \in {"start", "sse"} => stream = <<>>
    /\ (hpc \in {"wait", "done"} /\ httpStatus = 200) => Len(stream) >= 1
    /\ stream # <<>> => stream[1].status = "thinking"
    /\ \A i \in 2..Len(stream) : stream[i].status \in {"heartbeat", "complete", "error"}
    /\ \A i \in 1..Len(stream) :
        Terminal(stream[i]) => (i = Len(stream) /\ hpc = "done")

\* C2: the stream of a validated request is thinking, heartbeat*, then at
\* most one terminal event (complete or error) in last position; once the
\* handler has returned nothing more is written, and taking the result or
\* observing the disconnection makes the handler return in that same step.
C2_StreamProtocol ==
    /\ []StreamShape
    /\ [][hpc = "done" => (stream' = stream /\ hpc' = "done")]_vars
    /\ [][(hpc = "wait" /\ resultCh # <<>> /\ resultCh' = <<>>) =>
            (hpc' = "done" /\ Len(stream') = Len(stream) + 1
             /\ Terminal(stream'[Len(stream')]))]_vars
    /\ [][(hpc = "wait" /\ hpc' = "done" /\ resultCh' = resultCh) =>
            (~clientConnected /\ \A i \in 1..Len(stream') : ~Terminal(stream'[i]))]_vars

C2_Witness ==
    /\ hpc = "done"
    /\ Len(stream) = 4
    /\ stream[1].status = "thinking"
    /\ stream[2].status = "heartbeat"
    /\ stream[3].status = "heartbeat"
    /\ stream[4].status = "complete"

\* C5: ProcessIntent writes the store at most once: by one
\* AddTracksToPlaylist call that is its last collaborator call, is made after
\* every artist of the intent has been fetched and the filtering is done, and
\* carries all of matchingTracks; with no surviving track there is no such
\* call, and the store changes only in the step of a successful batch-add.
C5_NoPartialCommit ==
    /\ [](/\ Cardinality(CallIdx("AddTracksToPlaylist")) <= 1
          /\ \A i \in CallIdx("AddTracksToPlaylist") :
                /\ i = Len(calls)
                /\ PipelineEnded
                /\ Len(FetchCalls) = Len(intent.Artists)
                /\ calls[i].tracks = matchingTracks
                /\ calls[i].tracks # <<>>
          /\ (PipelineEnded /\ matchingTracks = <<>>) =>
                CallIdx("AddTracksToPlaylist") = {})
    /\ [][(playlists' # playlists \/ tracksTable' # tracksTable) =>
            /\ tpc = "persist"
            /\ Len(calls') = Len(calls) + 1
            /\ calls'[Len(calls')].op = "AddTracksToPlaylist"
            /\ calls'[Len(calls')].err = NoErr]_vars

\* Two artists were fetched and a batch of at least two tracks was written.
C5_Witness ==
    /\ tpc = "done"
    /\ Len(FetchCalls) = 2
    /\ \E i \in CallIdx("AddTracksToPlaylist") :
        calls[i].err = NoErr /\ Len(calls[i].tracks) >= 2
    /\ Len(playlists["p1"]) >= 3

\* C6: with no intent compiler configured nothing happens but the refusal:
\* no collaborator is called, no event is streamed, no task is started by the
\* handler, no result is sent, the store is untouched; a request that reaches
\* the check (JSON content type, playlist id present) is answered 501
\* "intent compiler not configured", and ProcessIntent itself returns the
\* not-configured error.
C6_NotConfiguredFailsFast ==
    ~compilerConfigured =>
        /\ calls = <<>>
        /\ stream = <<>>
        /\ resultCh = <<>>
        /\ \E st \in StoreChoices :
            playlists = st.playlists /\ tracksTable = st.tracksTable
        /\ entry = "http" => tpc = "idle"
        /\ hpc = "done" => httpStatus \in {415, 400, 501}
        /\ (hpc = "done" /\ req.contentTypeJSON /\ req.playlistID # "") =>
                (httpStatus = 501 /\ httpBody = "intent compiler not configured")
        /\ (entry = "direct" /\ PipelineEnded) =>
                (result.err.cause = "NotConfigured" /\ result.TracksAdded = 0)

C6_Witness ==
    /\ ~compilerConfigured
    /\ hpc = "done"
    /\ httpStatus = 501
    /\ req.bodyOK /\ req.message # ""

\* C7: when the extractor call failed, it is the only collaborator call
\* (no playlist load, no artist fetch, no batch-add), ProcessIntent's error is
\* the analyze wrap carrying the extractor's message, and the only terminal
\* event the stream can get is an error event with that message: it ends the
\* stream whenever the handler took the result.
C7_ExtractionFailure ==
    AnalyzeFailed =>
        /\ Len(calls) = 1
        /\ PipelineEnded
        /\ result.err.ctx = "failed to analyze intent"
        /\ result.err.msg = calls[1].err.msg
        /\ result.err.msg # ""
        /\ \A i \in 1..Len(stream) :
            /\ stream[i].status # "complete"
            /\ stream[i].status = "error" => stream[i].error.msg = calls[1].err.msg
        /\ (hpc = "done" /\ tpc = "done" /\ resultCh = <<>>) =>
                stream[Len(stream)].status = "error"

C7_Witness ==
    /\ AnalyzeFailed
    /\ hpc = "done"
    /\ Len(stream) >= 2
    /\ stream[Len(stream)].status = "error"
    /\ stream[Len(stream)].error.msg = "intent error"

IdsOf(tracks) == { tracks[i].id : i \in 1..Len(tracks) }

\* C8: a failed artist fetch is not fatal: the artists are fetched one by
\* one in the intent's order whatever the earlier outcomes, the evaluated
\* tracks are those of the fetches that succeeded, and a run whose other
\* steps succeeded ends without error (with 0 evaluated and 0 added when
\* every fetch failed).
C8_FetchFailureNonFatal ==
    /\ \A i \in 1..Len(FetchCalls) :
        i <= Len(intent.Artists) /\ FetchCalls[i].arg = intent.Artists[i]
    /\ tpc = "fetch" => Len(FetchCalls) = artistIdx - 1
    /\ (LoadSucceeded /\ tpc \in {"persist", "return", "done"}) =>
            Len(FetchCalls) = Len(intent.Artists)
    /\ IdsOf(allTracks) =
            UNION { IdsOf(FetchCalls[i].tracks) :
                      i \in { j \in 1..Len(FetchCalls) : FetchCalls[j].err = NoErr } }
    /\ (PipelineEnded /\ LoadSucceeded
          /\ \A i \in CallIdx("AddTracksToPlaylist") : calls[i].err = NoErr) =>
            /\ result.err = NoErr
            /\ result.TracksEvaluated = Len(allTracks)
            /\ (\A i \in 1..Len(FetchCalls) : FetchCalls[i].err # NoErr) =>
                    (result.TracksEvaluated = 0 /\ result.TracksAdded = 0)

\* The first artist failed, the second was still fetched and its tracks
\* were added.
C8_Witness ==
    /\ tpc = "done"
    /\ Len(FetchCalls) = 2
    /\ FetchCalls[1].err # NoErr
    /\ FetchCalls[2].err = NoErr
    /\ result.err = NoErr
    /\ result.TracksAdded > 0

RECURSIVE Flatten(_)
Flatten(cs) ==
    IF cs = <<>> THEN <<>>
    ELSE (IF Head(cs).err = NoErr THEN Head(cs).tracks ELSE <<>>) \o Flatten(Tail(cs))

\* the tracks the successful fetches returned, in fetch order
Fetched == Flatten(FetchCalls)

\* positions of Fetched that hold the first occurrence of their track ID
FirstPositions == { i \in 1..Len(Fetched) : \A j \in 1..(i - 1) : Fetched[j].id # Fetched[i].id }

\* C9: the evaluated list holds each track ID at most once, and it is the
\* fetched tracks reduced to the first occurrence of every ID, in the order
\* of those first occurrences.
C9_DedupFirstOccurrence ==
    /\ \A i, j \in 1..Len(allTracks) : allTracks[i].id = allTracks[j].id => i = j
    /\ Len(allTracks) = Cardinality(FirstPositions)
    /\ \A i \in 1..Len(allTracks) :
        \E p \in FirstPositions :
            /\ Fetched[p] = allTracks[i]
            /\ Cardinality({ q \in FirstPositions : q < p }) = i - 1

\* Two artists were fetched whose lists overlap.
C9_Witness ==
    /\ tpc = "done"
    /\ Len(FetchCalls) = 2
    /\ FetchCalls[1].arg # FetchCalls[2].arg
    /\ IdsOf(FetchCalls[1].tracks) \cap IdsOf(FetchCalls[2].tracks) # {}
    /\ Len(allTracks) = 3
    /\ Len(Fetched) = 5

InRange(c, value) ==
    \/ ~c.present
    \/ (c.min = 0 /\ c.max = 0)
    \/ (c.min <= value /\ value <= c.max)

\* an evaluated track that is not in the loaded playlist and satisfies every
\* set constraint of the intent
Qualifies(t) ==
    /\ t.id \notin existingTracks
    /\ InRange(intent.VibeConstraints.Energy, t.features.energy)
    /\ InRange(intent.VibeConstraints.Valence, t.features.valence)
    /\ InRange(intent.VibeConstraints.Acoustic, t.features.acousticness)
    /\ InRange(intent.VibeConstraints.Instrument, t.features.instrumentalness)

QualifyingPositions == { i \in 1..Len(allTracks) : Qualifies(allTracks[i]) }

\* C10: the loaded playlist's IDs are the IDs of the stored playlist, and
\* the batch handed to AddTracksToPlaylist is exactly the evaluated tracks
\* that qualify, in evaluation order: nothing already in the playlist,
\* nothing violating a set constraint, and no qualifying track missing (no
\* batch-add only when no track qualifies).
C10_BatchIsExactlyTheQualifyingTracks ==
    /\ (tpc \in {"fetch", "persist"}) =>
            existingTracks = { playlists[req.playlistID][i] :
                                 i \in 1..Len(playlists[req.playlistID]) }
    /\ (LoadSucceeded /\ tpc \in {"persist", "return", "done"}) =>
        /\ Len(matchingTracks) = Cardinality(QualifyingPositions)
        /\ \A i \in 1..Len(matchingTracks) :
            \E p \in QualifyingPositions :
                /\ allTracks[p] = matchingTracks[i]
                /\ Cardinality({ q \in QualifyingPositions : q < p }) = i - 1
        /\ PipelineEnded =>
            /\ \A i \in CallIdx("AddTracksToPlaylist") : calls[i].tracks = matchingTracks
            /\ QualifyingPositions # {} => CallIdx("AddTracksToPlaylist") # {}

\* A batch was written while one evaluated track was already in the playlist
\* and another one violated the energy constraint [50, 90].
C10_Witness ==
    /\ tpc = "done"
    /\ intent.VibeConstraints.Energy = Constraint(50, 90)
    /\ \E i \in CallIdx("AddTracksToPlaylist") :
        /\ calls[i].err = NoErr
        /\ \E k \in 1..Len(calls[i].tracks) : calls[i].tracks[k].features.energy = 50
    /\ \E k \in 1..Len(allTracks) : allTracks[k].id \in existingTracks
    /\ \E k \in 1..Len(allTracks) :
        allTracks[k].id \notin existingTracks /\ allTracks[k].features.energy < 50

\* the batch ProcessIntent persisted (empty when no batch-add was made)
PersistedBatch ==
    IF CallIdx("AddTracksToPlaylist") = {} THEN <<>>
    ELSE calls[CHOOSE i \in CallIdx("AddTracksToPlaylist") : TRUE].tracks

\* one artist returned five distinct tracks, two of them already in the
\* playlist, and the intent sets no constraint
FiveFetchedTwoExisting ==
    /\ intent = [EmptyIntent EXCEPT !.Artists = <<ProlificArtist>>]
    /\ Len(FetchCalls) = 1
    /\ FetchCalls[1].err = NoErr
    /\ Cardinality(IdsOf(FetchCalls[1].tracks)) = 5
    /\ Cardinality(IdsOf(FetchCalls[1].tracks) \cap existingTracks) = 2

\* C11: a successful ProcessIntent reports as tracksEvaluated the number of
\* tracks after dedup and before filtering, as tracksAdded the size of the
\* persisted batch, so tracksAdded <= tracksEvaluated; the complete event
\* carries the same counts; five distinct tracks of one artist with two
\* already in the playlist and no constraints give 5 evaluated and 3 added.
C11_ResultCounts ==
    (PipelineEnded /\ result.err = NoErr) =>
        /\ result.Intent = intent
        /\ result.TracksEvaluated = Cardinality(FirstPositions)
        /\ result.TracksEvaluated = Len(allTracks)
        /\ result.TracksAdded = Len(PersistedBatch)
        /\ result.TracksAdded <= result.TracksEvaluated
        /\ \A i \in 1..Len(stream) :
            stream[i].status = "complete" =>
                /\ stream[i].tracks_evaluated = result.TracksEvaluated
                /\ stream[i].tracks_added = result.TracksAdded
        /\ FiveFetchedTwoExisting =>
                (result.TracksEvaluated = 5 /\ result.TracksAdded = 3)

\* The five-track scenario ran to its complete event.
C11_Witness ==
    /\ FiveFetchedTwoExisting
    /\ hpc = "done"
    /\ stream[Len(stream)].status = "complete"
    /\ stream[Len(stream)].tracks_evaluated = 5
    /\ stream[Len(stream)].tracks_added = 3
    /\ Len(PersistedBatch) = 3

\* ------------------------------------------- claims on the pure functions

\* C12: matchesConstraints accepts a track exactly when each of the four
\* constraints (energy, valence, acousticness, instrumentalness) is absent,
\* or is the unset sentinel min = max = 0, or has min <= value <= max with
\* both bounds included; one violated set constraint rejects the track.
C12_MatchesConstraints ==
    mcpc = "done" =>
        (mcResult <=>
            /\ InRange(mcConstraints.VibeConstraints.Energy, mcFeatures.energy)
            /\ InRange(mcConstraints.VibeConstraints.Valence, mcFeatures.valence)
            /\ InRange(mcConstraints.VibeConstraints.Acoustic, mcFeatures.acousticness)
            /\ InRange(mcConstraints.VibeConstraints.Instrument,
                       mcFeatures.instrumentalness))

\* Accepted with energy and instrumentalness on the bounds of [50, 90], the
\* sentinel on valence and no acousticness constraint.
C12_Witness ==
    /\ mcpc = "done"
    /\ mcResult
    /\ mcFeatures.energy = 50
    /\ mcFeatures.instrumentalness = 90
    /\ mcFeatures.valence = 50
    /\ mcConstraints.VibeConstraints =
            VibeConstraints(Constraint(50, 90), Constraint(0, 0), NilConstraint,
                            Constraint(50, 90))

\* ------------------------------------------- claims on the track resolver

\* the search answer was decoded and searchTrack has returned
MatcherFinished ==
    /\ gSearch.kind = "resp" /\ gSearch.status = 200 /\ gSearch.decodes
    /\ gpc \in {"features", "done"}

\* positions (from 1) of the candidates the matcher looks at
FirstFive == { i \in 1..Len(gSearch.items) : i <= 5 }

ScoreOf(i) == FinalScore(gSearch.items[i], gTitle, gArtist)
ExactArtistOf(i) == artistExactMatch(gSearch.items[i], gArtist)
TitleMatchOf(i) == titleSubstringMatch(gSearch.items[i].Name, gTitle)

\* the candidates whose final score reaches the configured threshold
Clearing == { i \in FirstFive : ScoreOf(i) >= getMinConfidence(gEnv) }

FailedNoConfidentMatch == gpc = "done" /\ gOut.err.cause = "NoConfidentMatch"

\* C13: the matcher fails with NoConfidentMatch, carrying the original
\* title and artist, exactly when the candidate list is empty or none of the
\* first 5 candidates has a final score >= minConfidence; otherwise it
\* returns one of the candidates whose final score is >= minConfidence; for
\* every minConfidence in [0, 1], 0 included.
C13_NoConfidentMatchIffNoneClears ==
    MatcherFinished =>
        /\ getMinConfidence(gEnv) \in 0..ScoreScale
        /\ FailedNoConfidentMatch <=> (gSearch.items = <<>> \/ Clearing = {})
        /\ FailedNoConfidentMatch =>
                (gOut.err.Title = gTitle /\ gOut.err.Artist = gArtist)
        /\ ~FailedNoConfidentMatch => \E i \in Clearing : gTrack = gSearch.items[i]

\* candidate i wins against candidate j: higher final score, then exact
\* artist, then title substring
Better(i, j) ==
    \/ ScoreOf(i) > ScoreOf(j)
    \/ (ScoreOf(i) = ScoreOf(j) /\ ExactArtistOf(i) /\ ~ExactArtistOf(j))
    \/ (ScoreOf(i) = ScoreOf(j) /\ ExactArtistOf(i) = ExactArtistOf(j)
          /\ TitleMatchOf(i) /\ ~TitleMatchOf(j))

\* the earliest of the clearing candidates that no other one beats
IsWinner(i) ==
    /\ i \in Clearing
    /\ \A j \in Clearing : ~Better(j, i)
    /\ \A j \in Clearing : j < i => Better(i, j)

\* C14: among the first 5 candidates that clear the threshold the matcher
\* returns the winner of the order (final score, exact artist, title
\* substring, earliest position), and during the scan a later candidate
\* replaces the current best only when it is strictly better in this order.
C14_TieBreakOrder ==
    /\ []((MatcherFinished /\ Clearing # {}) =>
            (bestIndex # -1 /\ IsWinner(bestIndex + 1)
             /\ gTrack = gSearch.items[bestIndex + 1]))
    /\ [][(gpc = "loop" /\ bestIndex # -1 /\ bestIndex' # bestIndex) =>
            (/\ bestIndex' = gIdx
             /\ (gIdx + 1) \in Clearing
             /\ Better(gIdx + 1, bestIndex + 1))]_vars

\* the match succeeded and GetTrack went on to the feature lookup
Matched == gTrack # NoSpotifyTrack

Substituted ==
    /\ gOut.err = NoErr
    /\ gOut.track.id = gTrack.ID
    /\ gOut.track.features = generateDeterministicFeatures(gTrack.ID)

\* C15: after a successful match, a 403 or 404 answer to the feature
\* lookup, or a 200 answer whose six features are all zero, gives success
\* with the deterministic features of the track ID; any other non-200
\* answer, a transport failure or an undecodable body gives an error and no
\* track; the feature lookup is issued exactly when the search produced a
\* match, never after NoConfidentMatch.
C15_FeatureLookupOutcomes ==
    gpc = "done" =>
        /\ gRequests = IF Matched THEN <<"search", "audio-features">> ELSE <<"search">>
        /\ FailedNoConfidentMatch => (~Matched /\ gFeatures = NoResponse)
        /\ Matched =>
            /\ (gFeatures.kind = "resp"
                  /\ (gFeatures.status \in {403, 404}
                      \/ (gFeatures.status = 200 /\ gFeatures.decodes
                          /\ gFeatures.features = ZeroFeatures)))
                    => Substituted
            /\ (\/ gFeatures.kind = "err"
                \/ gFeatures.status \notin {200, 403, 404}
                \/ (gFeatures.status = 200 /\ ~gFeatures.decodes))
                    => (gOut.err # NoErr /\ gOut.track = NoTrack)

\* The lookup of a matched track was refused and the deterministic features
\* were substituted.
C15_Witness ==
    /\ gpc = "done"
    /\ Matched
    /\ gFeatures.kind = "resp" /\ gFeatures.status = 403
    /\ Substituted
    /\ gOut.track.features # ZeroFeatures

\* C16: when the catalog answers with a feature set whose energy is 0
\* while other features are non-zero, GetTrack returns the deterministic
\* features of the track ID instead of the catalog's values.
C16_EmptyEnergyFallsBack ==
    (/\ gpc = "done"
     /\ Matched
     /\ gFeatures.kind = "resp" /\ gFeatures.status = 200 /\ gFeatures.decodes
     /\ gFeatures.features.energy = 0
     /\ gFeatures.features # ZeroFeatures)
        => Substituted

\* ------------------------------------------------- claims on the playlist

HasISRC(tracks, isrc) == \E i \in 1..Len(tracks) : tracks[i].isrc = isrc

\* C17: starting from an empty playlist, after any sequence of AddTrack
\* calls no two tracks share a non-empty ISRC; an AddTrack whose track has a
\* non-empty ISRC already present returns ErrDuplicateISRC and leaves the
\* track list unchanged; every other AddTrack (a track with an empty ISRC
\* included) returns no error and appends the track at the end, the earlier
\* tracks and their order unchanged.
C17_AddTrackKeepsISRCsUnique ==
    /\ [](\A i, j \in 1..Len(plTracks) :
            (plTracks[i].isrc # "" /\ plTracks[i].isrc = plTracks[j].isrc) => i = j)
    /\ [][plCalls' # plCalls =>
            IF plArg'.isrc # "" /\ HasISRC(plTracks, plArg'.isrc)
            THEN /\ plErr' = ErrDuplicateISRC
                 /\ plTracks' = plTracks
            ELSE /\ plErr' = NoErr
                 /\ Len(plTracks') = Len(plTracks) + 1
                 /\ plTracks'[Len(plTracks')] = plArg'
                 /\ SubSeq(plTracks', 1, Len(plTracks)) = plTracks]_vars

\* Two tracks without ISRC follow a track with one, and a fourth track
\* with that ISRC was refused.
C17_Witness ==
    /\ plCalls = 4
    /\ Len(plTracks) = 3
    /\ plTracks[1].isrc = "US1"
    /\ plTracks[2].isrc = "" /\ plTracks[3].isrc = ""
    /\ plArg.isrc = "US1" /\ plArg.id # plTracks[1].id
    /\ plErr = ErrDuplicateISRC

\* ----------------------------------------------- claims on the store paths

Succeeded(r) == apc[r] \in {"saved", "done"}
Linked(id) == HasLink(playlists["p1"], id)

\* C3: when two concurrent AddTrackToPlaylist calls on the same playlist add
\* different tracks and both return success, the stored playlist contains
\* both tracks.
C3_NoLostUpdate ==
    (Succeeded("r1") /\ Succeeded("r2") /\ aTrack["r1"].id # aTrack["r2"].id) =>
        (Linked(aTrack["r1"].id) /\ Linked(aTrack["r2"].id))

\* C4: features the worker has persisted for a track are not replaced by the
\* Save of an AddTrackToPlaylist call that adds another track to a playlist
\* already containing that track.
C4_WorkerUpdateKept ==
    [][\A r \in Adders : \A t \in updated :
          (/\ apc[r] = "save"
           /\ apc'[r] = "saved"
           /\ aTrack[r].id # t
           /\ tracksTable[t].features = AnalyzedFeatures)
          => tracksTable'[t].features = AnalyzedFeatures]_vars

\* the steps of AddTrackToPlaylist in code order, and where each can end
StepOrder ==
    { <<"resolve", "load">>, <<"load", "mutate">>, <<"mutate", "save">>,
      <<"save", "saved">>, <<"saved", "done">>,
      <<"resolve", "failed">>, <<"load", "failed">>, <<"mutate", "failed">>,
      <<"save", "failed">> }

\* the error of a failed request names the step and keeps the kind
ErrorKindKept(e) ==
    \/ (e.ctx = "failed to fetch track" /\ e.cause = "NoConfidentMatch")
    \/ (e.ctx = "failed to load playlist" /\ e.cause \in {"NotFound", "generic"})
    \/ (e.ctx = "domain rule violation" /\ e.cause = "DuplicateISRC")
    \/ (e.ctx = "failed to save playlist" /\ e.cause = "generic")

\* C18: AddTrackToPlaylist writes the store at most once, by one Save, and
\* only after the track resolution, the playlist load and the
\* Playlist.AddTrack check have succeeded, in that order; a request in which
\* one of them failed never reaches Save and writes nothing, and its error
\* keeps the kind of the failure (NoConfidentMatch, NotFound, DuplicateISRC)
\* under the added context.
C18_SaveOnlyAfterAllChecks ==
    /\ [](\A r \in Adders :
            /\ apc[r] \in {"load", "mutate", "save", "saved", "done"} =>
                    (aTrack[r] # NoTrack /\ aErr[r] = NoErr)
            /\ apc[r] \in {"save", "saved", "done"} =>
                    /\ aPl[r] # <<>>
                    /\ aPl[r][Len(aPl[r])] = aTrack[r]
                    /\ \A i \in 1..(Len(aPl[r]) - 1) :
                            aTrack[r].isrc = "" \/ aPl[r][i].isrc # aTrack[r].isrc
            /\ apc[r] = "failed" => ErrorKindKept(aErr[r]))
    /\ [][\A r \in Adders :
            /\ apc'[r] # apc[r] => <<apc[r], apc'[r]>> \in StepOrder
            /\ (apc[r] # "failed" /\ apc'[r] = "failed") => UNCHANGED storeVars
            /\ (apc[r] = "save" /\ apc'[r] = "saved") =>
                    { playlists'["p1"][i] : i \in 1..Len(playlists'["p1"]) } =
                        { aPl[r][i].id : i \in 1..Len(aPl[r]) }]_vars
    /\ [][playlists' # playlists =>
            \E r \in Adders : apc[r] = "save" /\ apc'[r] = "saved"]_vars

\* One request was refused for a duplicate ISRC and wrote nothing while the
\* other one saved a two-track playlist.
C18_Witness ==
    /\ apc["r1"] = "failed"
    /\ aErr["r1"] = Wrap("domain rule violation", ErrDuplicateISRC)
    /\ apc["r2"] \in {"saved", "done"}
    /\ Len(playlists["p1"]) = 2
    /\ playlists["p1"][2] = aTrack["r2"].id

\* ------------------------------------- claims on the playlist lookup handlers

\* the store's lookup of the requested playlist finds no row
StoreReportsNotFound == lID # "" /\ lDBFails # "lookup" /\ lID \notin DOMAIN lPlaylists

\* a query of the store fails on the way to the answer
StoreFailsGeneric == lID # "" /\ (lDBFails = "lookup" \/ (lDBFails = "rows" /\ lID \in DOMAIN lPlaylists))

\* C19: when the store reports NotFound for the playlist, GetPlaylist and
\* GetPlaylistAnalysis both answer 404, and they answer 500 when the store
\* fails in any other way.
C19_NotFoundIs404 ==
    lpc = "done" =>
        /\ StoreReportsNotFound => lStatus = 404
        /\ StoreFailsGeneric => lStatus = 500

\* what the handlers do answer: a missing playlist gets the 500 of a store
\* failure, from either handler, though the service keeps the NotFound kind
LookupNotFoundAnswered500 ==
    (lpc = "done" /\ StoreReportsNotFound) => (lStatus = 500 /\ ErrorsIs(lErr, ErrNotFound))

\* ----------------------------------------------- claims on the pool's queue

\* a Submit call returns in the step it is made in: it either enqueued its
\* job behind the queued ones or left the queue alone and logged one drop
SubmitReturnsAtOnce ==
    sCalls' # sCalls =>
        /\ sCalls' = sCalls + 1
        /\ IF Len(jobs) < Capacity
           THEN /\ Len(jobs') = Len(jobs) + 1
                /\ SubSeq(jobs', 1, Len(jobs)) = jobs
                /\ dropLog' = dropLog
           ELSE /\ jobs' = jobs
                /\ Len(dropLog') = Len(dropLog) + 1
                /\ SubSeq(dropLog', 1, Len(dropLog)) = dropLog

\* C20: Submit never blocks (it can be called in every state, whatever the
\* queue holds and the workers do), it enqueues when the queue has a free
\* slot and drops otherwise, and the queue never holds more jobs than the
\* queue size the pool was configured with.
C20_QueueWithinConfiguredSize ==
    /\ [](sCalls < MaxSubmits => ENABLED Pool_Submit)
    /\ [][SubmitReturnsAtOnce]_vars
    /\ [](Len(jobs) <= queueSize)

\* C20, amended: the same, the queue never holding more jobs than its
\* capacity, which is the configured queue size, or 1 when that is below 1.
C20_SubmitNeverBlocks ==
    /\ [](sCalls < MaxSubmits => ENABLED Pool_Submit)
    /\ [][SubmitReturnsAtOnce]_vars
    /\ [](Len(jobs) <= Capacity)

\* a job was dropped on a full queue while an earlier call had enqueued one
C20_Witness ==
    /\ dropLog # <<>>
    /\ Len(jobs) = Capacity
    /\ sCalls > Len(dropLog)
    /\ \E w \in Workers : wpc[w] = "processing"

\* ------------------------------------------- claims on the pool's shutdown

\* the jobs Submit has put into the queue
Accepted == sCalls - Len(dropLog) - (IF panicked THEN 1 ELSE 0)

SomeWorkerStarted == \E w \in Workers : wpc[w] # "unstarted"

\* when Stop has returned the queue is drained, every accepted job has been
\* processed to completion and no worker is running
DrainedOnReturn ==
    (stpc = "returned" /\ SomeWorkerStarted) =>
        /\ jobs = <<>>
        /\ completed = Accepted
        /\ \A w \in Workers : wpc[w] \in {"unstarted", "exited"}

\* C21: Stop eventually returns, and when it has returned every job accepted
\* before it was called has been processed and no worker is still running,
\* provided a worker was started.
C21_StopDrains ==
    /\ (stpc = "waiting" ~> stpc = "returned")
    /\ []DrainedOnReturn

\* what holds of Stop whatever the submitters do: it returns unless the
\* process has panicked, and it has drained the queue when it returns
StopDrainsUnlessPanicked ==
    /\ (stpc = "waiting" ~> (stpc = "returned" \/ panicked))
    /\ []DrainedOnReturn

\* Stop has returned after two workers processed three accepted jobs
StopDrainedReached ==
    /\ stpc = "returned"
    /\ completed = 3
    /\ \A w \in Workers : wpc[w] = "exited"

\* C22: once Stop has closed the queue, a Submit call leaves the queue as it
\* is, returns, and does not bring the process down.
C22_SubmitAfterStopRefused ==
    [][(closed /\ sCalls' # sCalls) => (jobs' = jobs /\ ~panicked')]_vars

\* C23: no two workers are inside processJob for jobs of the same track.
C23_OneWorkerPerTrack ==
    \A w1, w2 \in Workers :
        (w1 # w2 /\ wpc[w1] = "processing" /\ wpc[w2] = "processing")
            => wJob[w1].TrackID # wJob[w2].TrackID

\* ----------------------------------------- claims on the pipeline's launch

\* the request passes every check of AnalyzeIntent
PassesValidation ==
    /\ entry = "http"
    /\ req.contentTypeJSON
    /\ req.playlistID # ""
    /\ compilerConfigured
    /\ req.bodyOK
    /\ req.message # ""

\* the goroutine running ProcessIntent has been started
Launched == tpc # "idle"

\* C24: every request that passes validation has its pipeline launched,
\* whether or not the client is still there when the first status event is
\* written.
C24_ValidatedIsLaunched ==
    (PassesValidation /\ hpc \in {"wait", "done"}) => Launched

\* C24, amended: a request that passes validation has its pipeline launched
\* exactly when the first status event was written without error, connected
\* client or not; when that write fails the handler returns and nothing is
\* launched. No request that fails validation is launched.
C24_LaunchedIffThinkingWritten ==
    /\ [](entry = "http" =>
            /\ hpc = "sse" => (PassesValidation /\ ~Launched)
            /\ hpc = "wait" => Launched
            /\ Launched => (PassesValidation /\ stream # <<>> /\ stream[1].status = "thinking")
            /\ (PassesValidation /\ hpc = "done") => stream # <<>>)
    /\ [][(entry = "http" /\ hpc = "sse" /\ hpc' # "sse") =>
            /\ stream' = <<StatusEvent("thinking")>>
            /\ hpc' \in {"wait", "done"}
            /\ hpc' = "wait" <=> tpc' = "start"
            /\ hpc' = "done" => (~clientConnected /\ tpc' = "idle")]_vars

\* the client is gone, the first event went out all the same and the
\* pipeline has been started
C24_Witness ==
    /\ PassesValidation
    /\ ~clientConnected
    /\ hpc = "wait"
    /\ Len(stream) = 1
    /\ tpc = "start"

\* -------------------------------------- claims on the fallback generator
\* C25: the fallback generator is deterministic and free of shared state:
\* any two calls that returned for the same track id returned identical
\* features, the ones of the function computed on its own, whatever other
\* calls ran in between or at the same time.
C25_GeneratorDeterministic ==
    /\ \A i, j \in DOMAIN dReturned :
        dReturned[i].trackID = dReturned[j].trackID
            => dReturned[i].features = dReturned[j].features
    /\ \A i \in DOMAIN dReturned :
        dReturned[i].features = generateDeterministicFeatures(dReturned[i].trackID)

\* two callers returned for the same id and a call for another id returned
\* in between
C25_Witness ==
    /\ Len(dReturned) = 3
    /\ dReturned[1].trackID = dReturned[3].trackID
    /\ dReturned[1].caller # dReturned[3].caller
    /\ dReturned[2].trackID # dReturned[1].trackID
    /\ dReturned[1].features # dReturned[2].features

\* --------------------------------------------- claims on the normalisations
\* C26: normalisation is idempotent: Normalize(Normalize(s)) = Normalize(s)
\* for every input s, and likewise for normalizeSearchInput.
C26_NormalizationIdempotent ==
    npc = "twice" =>
        /\ nTwice["Normalize"] = nOnce["Normalize"]
        /\ nTwice["normalizeSearchInput"] = nOnce["normalizeSearchInput"]

\* an input that both functions change: Normalize strips the suffix
\* " - live", normalizeSearchInput drops the token live, and both lower
\* the letter and clean the leading separator
C26_Witness ==
    /\ npc = "twice"
    /\ nIn = <<"-", "B", " ", "-", " ", "l", "i", "v", "e">>
    /\ nOnce["Normalize"] = <<"b">>
    /\ nOnce["normalizeSearchInput"] = <<"b">>
    /\ nTwice = nOnce

\* ------------------------------------------- claims on the stored playlists
\* the tracks of a stored playlist, as Adapter.GetByID returns them
StoredTracks(p) == LoadPlaylist(p).Tracks

\* C27: across both write paths no two tracks of a stored playlist share a
\* non-empty external standard code (ISRC).
C27_NoDuplicateISRCStored ==
    \A p \in DOMAIN playlists :
        \A i, j \in 1..Len(playlists[p]) :
            (i # j /\ StoredTracks(p)[i].isrc # "")
                => StoredTracks(p)[i].isrc # StoredTracks(p)[j].isrc

\* --------------------------------------------- claims on doRequestWithRetry
\* the attempts whose outcome is not retryable, among the first maxRetries
FinalAttempts == { k \in 1..rMaxRetries : ~shouldRetry(OutcomeAt(rStatuses, k)) }

FirstFinal == CHOOSE k \in FinalAttempts : \A j \in FinalAttempts : k <= j

\* the contract of a call that has returned
RetryContract ==
    /\ rDone >= 1
    /\ rDone <= rMaxRetries
    /\ IF FinalAttempts # {}
       THEN /\ rDone = FirstFinal
            /\ rResp = OutcomeAt(rStatuses, FirstFinal)
            /\ rErr = ""
       ELSE /\ rDone = rMaxRetries
            /\ rResp = 0
            /\ rErr # ""
    /\ (rStatuses = <<503, 503, 200>> /\ rMaxRetries = 3)
            => (rDone = 3 /\ rResp = 200 /\ rErr = "")
    /\ (rStatuses = <<429>> /\ rMaxRetries = 2)
            => (rDone = 2 /\ rResp = 0 /\ rErr # "")

\* C28 as stated: every call makes between one and maxRetries attempts,
\* returns the first response that is not retryable, and fails with no
\* response when all maxRetries attempts were retryable.
C28_RetryContract == rpc = "done" => RetryContract

\* C28: the contract holds for every call that does not end on the
\* cancellation of the request's context; a call that does returns an
\* error and no response after fewer than maxRetries attempts, all of them
\* retryable, and only when the context was cancelled.
C28_RetryContractUnlessCanceled ==
    rpc = "done" =>
        IF rErr = "canceled"
        THEN /\ rCtxDone
             /\ rResp = 0
             /\ rDone < rMaxRetries
             /\ \A k \in 1..rDone : shouldRetry(OutcomeAt(rStatuses, k))
        ELSE RetryContract

\* statuses 503, 503, 200 with maxRetries 3: three attempts and the 200
C28_Witness ==
    /\ rpc = "done"
    /\ rStatuses = <<503, 503, 200>>
    /\ cMaxRetries = 3
    /\ rDone = 3
    /\ rResp = 200
    /\ rErr = ""

\* a constant 429 with maxRetries 2: two attempts and an error
RetryExhaustedReached ==
    /\ rpc = "done"
    /\ rStatuses = <<429>>
    /\ cMaxRetries = 2
    /\ rDone = 2
    /\ rResp = 0
    /\ rErr = "failed"

\* ------------------------------------------- claims on the result channel
\* C29: the goroutine's send on the result channel never blocks: whenever
\* ProcessIntent has returned the send can complete, also after the handler
\* has returned on a disconnect, and the goroutine then ends.
C29_SendNeverBlocks ==
    /\ [](tpc = "return" => ENABLED PI_Return)
    /\ (tpc = "return" ~> tpc = "done")

\* the state part of C29
SendAlwaysEnabled == tpc = "return" => ENABLED PI_Return

\* the handler returned on the client's disconnect, the goroutine has sent
\* its result all the same and ended; nobody will receive it
C29_Witness ==
    /\ entry = "http"
    /\ ~clientConnected
    /\ hpc = "done"
    /\ tpc = "done"
    /\ Len(resultCh) = 1

\* ------------------------------------------ claims on min-only constraints
\* a constraint with a positive min whose max was left at its zero value
MinOnly(c) == c.present /\ c.min > 0 /\ c.max = 0

HasMinOnly ==
    \/ MinOnly(intent.VibeConstraints.Energy)
    \/ MinOnly(intent.VibeConstraints.Valence)
    \/ MinOnly(intent.VibeConstraints.Acoustic)
    \/ MinOnly(intent.VibeConstraints.Instrument)

====
